---------------------------- MODULE Spec2Model ----------------------------
(***************************************************************************)
(* Books Vault: a book catalogue kept in browser-local storage.            *)
(*                                                                         *)
(* The module models the repository (state.js), the storage layer          *)
(* (storage.js), the validators and the search functions (validators.js)   *)
(* and the event handlers of main.js.                                      *)
(*                                                                         *)
(* Conventions                                                             *)
(*  - a JavaScript string is a sequence of one-character strings;          *)
(*  - a JavaScript object is a function from its own keys to values, so a  *)
(*    missing key is a key outside the DOMAIN;                             *)
(*  - an id `book_<timestamp>_<random>` is the pair <<timestamp, random>>; *)
(*  - an ISO timestamp is the clock reading it was taken from (the ISO     *)
(*    form of an instant is injective and ordered like the instant).       *)
(***************************************************************************)
EXTENDS Integers, Sequences, FiniteSets, TLC

(***************************************************************************)
(* Bounds of the model.                                                    *)
(***************************************************************************)
\* the clock readings are 0..MaxClock
MaxClock == 1
\* the collection holds at most MaxBooks records
MaxBooks == 2
\* sortBooks is called on arrays of at most MaxSortLen records
MaxSortLen == 3
\* highlightMatches is called on texts of at most MaxTextLen characters
MaxTextLen == 3
\* the longest array an import file holds when importFromJSON is called alone
MaxElements == 3
\* the largest collection the statistics of the dashboard are computed over
MaxShelf == 3

(***************************************************************************)
(* Characters and strings.                                                 *)
(***************************************************************************)
UpperLetters == <<"A","B","C","D","E","F","G","H","I","J","K","L","M",
                  "N","O","P","Q","R","S","T","U","V","W","X","Y","Z">>

LowerLetters == <<"a","b","c","d","e","f","g","h","i","j","k","l","m",
                  "n","o","p","q","r","s","t","u","v","w","x","y","z">>

Digits == <<"0","1","2","3","4","5","6","7","8","9">>

Range(s) == {s[i] : i \in DOMAIN s}

IsLetter(c) == c \in Range(UpperLetters) \cup Range(LowerLetters)

IsDigit(c) == c \in Range(Digits)

\* \s of the regular expressions, and the characters trim() removes
IsSpace(c) == c \in {" ", "\t", "\n"}

\* the characters `.` does not match
IsLineTerminator(c) == c = "\n"

DigitVal(c) == (CHOOSE i \in DOMAIN Digits : Digits[i] = c) - 1

\* the canonical form two characters share under the i flag
Canonicalize(c) ==
    IF c \in Range(LowerLetters)
    THEN UpperLetters[CHOOSE i \in DOMAIN LowerLetters : LowerLetters[i] = c]
    ELSE c

\* parseInt(s, 10) of a string of digits
RECURSIVE DigitsToNat(_)
DigitsToNat(s) ==
    IF s = <<>> THEN 0
    ELSE 10 * DigitsToNat(SubSeq(s, 1, Len(s) - 1)) + DigitVal(s[Len(s)])

\* !value || value.trim().length === 0
IsBlank(s) == \A i \in DOMAIN s : IsSpace(s[i])

(***************************************************************************)
(* validators.js: the patterns.                                            *)
(***************************************************************************)
\* /^\S(?:.*\S)?$/
TitlePattern(s) ==
    /\ Len(s) >= 1
    /\ ~IsSpace(s[1])
    /\ ~IsSpace(s[Len(s)])
    /\ \A i \in 2..(Len(s) - 1) : ~IsLineTerminator(s[i])

\* /^[A-Za-z]+(?:[ -][A-Za-z]+)*$/
CategoryPattern(s) ==
    /\ Len(s) >= 1
    /\ \A i \in DOMAIN s : IsLetter(s[i]) \/ s[i] \in {" ", "-"}
    /\ IsLetter(s[1])
    /\ IsLetter(s[Len(s)])
    /\ \A i \in 1..(Len(s) - 1) : IsLetter(s[i]) \/ IsLetter(s[i + 1])

\* /^[1-9]\d*$/
PagesPattern(s) ==
    /\ Len(s) >= 1
    /\ \A i \in DOMAIN s : IsDigit(s[i])
    /\ s[1] # "0"

\* /^\d{4}-(0[1-9]|1[0-2])-(0[1-9]|[12]\d|3[01])$/
DatePattern(s) ==
    /\ Len(s) = 10
    /\ \A i \in {1, 2, 3, 4, 6, 7, 9, 10} : IsDigit(s[i])
    /\ s[5] = "-"
    /\ s[8] = "-"
    /\ DigitsToNat(SubSeq(s, 6, 7)) \in 1..12
    /\ DigitsToNat(SubSeq(s, 9, 10)) \in 1..31

\* /\s{2,}/
HasDoubleSpace(s) == \E i \in 1..(Len(s) - 1) : IsSpace(s[i]) /\ IsSpace(s[i + 1])

\* /^\d{4}-\d{2}-\d{2}$/ of importFromJSON
ImportDatePattern(s) ==
    /\ Len(s) = 10
    /\ \A i \in {1, 2, 3, 4, 6, 7, 9, 10} : IsDigit(s[i])
    /\ s[5] = "-"
    /\ s[8] = "-"

(***************************************************************************)
(* new Date(value) for a value that DatePattern accepted.                  *)
(***************************************************************************)
IsLeapYear(y) == (y % 4 = 0 /\ y % 100 # 0) \/ y % 400 = 0

DaysInMonth(y, m) ==
    IF m = 2 THEN (IF IsLeapYear(y) THEN 29 ELSE 28)
    ELSE IF m \in {4, 6, 9, 11} THEN 30 ELSE 31

\* Whether new Date("YYYY-MM-DD") is a valid date. The month is 01-12 and the
\* day 01-31 here. An engine whose ISO parser accepts every day up to 31 and
\* rolls over into the next month (lenient) never reports NaN; an engine that
\* checks the day against the month (not lenient) reports NaN for a day that
\* the month does not have.
DateIsValid(s, lenient) ==
    \/ lenient
    \/ DigitsToNat(SubSeq(s, 9, 10)) <=
          DaysInMonth(DigitsToNat(SubSeq(s, 1, 4)), DigitsToNat(SubSeq(s, 6, 7)))

(***************************************************************************)
(* validators.js: the field validators.  Each returns {valid, message};    *)
(* the message is modelled by its reason.                                  *)
(***************************************************************************)
Valid == [valid |-> TRUE, message |-> "ok"]

Invalid(reason) == [valid |-> FALSE, message |-> reason]

\* a validateTitle that tests the pattern before it tests for a blank value
validateTitlePatternFirst(value) ==
    IF ~TitlePattern(value) THEN Invalid("LeadingTrailing")
    ELSE IF IsBlank(value) THEN Invalid("Required")
    ELSE IF HasDoubleSpace(value) THEN Invalid("DoubleSpace")
    ELSE IF Len(value) < 2 THEN Invalid("TooShort")
    ELSE Valid

validateTitle(value) ==
    IF IsBlank(value) THEN Invalid("Required")
    ELSE IF ~TitlePattern(value) THEN Invalid("LeadingTrailing")
    ELSE IF HasDoubleSpace(value) THEN Invalid("DoubleSpace")
    ELSE IF Len(value) < 2 THEN Invalid("TooShort")
    ELSE Valid

validateAuthor(value) ==
    IF IsBlank(value) THEN Invalid("Required")
    ELSE IF ~CategoryPattern(value) THEN Invalid("Formatting")
    ELSE Valid

validatePages(value) ==
    IF IsBlank(value) THEN Invalid("Required")
    ELSE IF ~PagesPattern(value) THEN Invalid("Formatting")
    ELSE IF DigitsToNat(value) <= 0 THEN Invalid("NotPositive")
    ELSE Valid

validateTag(value) ==
    IF IsBlank(value) THEN Invalid("Required")
    ELSE IF ~CategoryPattern(value) THEN Invalid("Formatting")
    ELSE Valid

validateDate(value, lenient) ==
    IF IsBlank(value) THEN Invalid("Required")
    ELSE IF ~DatePattern(value) THEN Invalid("Formatting")
    ELSE IF ~DateIsValid(value, lenient) THEN Invalid("InvalidDate")
    ELSE Valid

(***************************************************************************)
(* Objects.                                                                *)
(***************************************************************************)
\* book[k] of a key the object may lack: the empty string stands for
\* undefined wherever the code only tests the value for truthiness
Get(o, k) == IF k \in DOMAIN o THEN o[k] ELSE <<>>

\* book[k] is truthy: the key is present and its string is not empty
Truthy(o, k) == k \in DOMAIN o /\ o[k] # <<>>

\* { ...a, ...b }
Spread(a, b) ==
    [k \in (DOMAIN a) \cup (DOMAIN b) |-> IF k \in DOMAIN b THEN b[k] ELSE a[k]]

\* validateBook(book): the error map, keyed by field
validateBookErrors(book, lenient) ==
    LET results == [title  |-> validateTitle(Get(book, "title")),
                    author |-> validateAuthor(Get(book, "author")),
                    pages  |-> validatePages(Get(book, "pages")),
                    tag    |-> validateTag(Get(book, "tag")),
                    date   |-> validateDate(Get(book, "date"), lenient)]
        failing == {f \in DOMAIN results : ~results[f].valid}
    IN  [f \in failing |-> results[f].message]

validateBook(book, lenient) ==
    LET errors == validateBookErrors(book, lenient)
    IN  [valid |-> DOMAIN errors = {}, errors |-> errors]

(***************************************************************************)
(* state.js: the repository functions, as functions of the collection.     *)
(***************************************************************************)
\* `book_${Date.now()}_${Math.floor(Math.random() * 1000)}`
generateId(timestamp, random) == <<timestamp, random>>

\* book.id === id, for an id that is a string
HasId(book, id) == "id" \in DOMAIN book /\ book["id"] = id

\* books.findIndex(book => book.id === id), counted from 1; 0 stands for -1
FindIndex(bs, id) ==
    IF \E i \in DOMAIN bs : HasId(bs[i], id)
    THEN CHOOSE i \in DOMAIN bs :
            HasId(bs[i], id) /\ \A j \in 1..(i - 1) : ~HasId(bs[j], id)
    ELSE 0

\* { id: generateId(), ...bookData, createdAt: now, updatedAt: now }
NewBook(bookData, id, t) ==
    Spread(Spread([id |-> id], bookData), [createdAt |-> t, updatedAt |-> t])

\* { key: old[key] } of an object literal: a key whose value is undefined is
\* a key the stored object does not have
Keep(old, key) == IF key \in DOMAIN old THEN [k \in {key} |-> old[key]] ELSE <<>>

\* { ...books[index], ...updates, id: books[index].id,
\*   createdAt: books[index].createdAt, updatedAt: new Date().toISOString() }
UpdatedBook(old, updates, t) ==
    LET merged == Spread(old, updates)
        rest   == [k \in (DOMAIN merged) \ {"id", "createdAt", "updatedAt"} |-> merged[k]]
    IN  Spread(Spread(Spread(rest, Keep(old, "id")), Keep(old, "createdAt")),
               [updatedAt |-> t])

\* books.filter(book => book.id !== id)
RECURSIVE FilterOutId(_, _)
FilterOutId(bs, id) ==
    IF bs = <<>> THEN <<>>
    ELSE IF HasId(Head(bs), id) THEN FilterOutId(Tail(bs), id)
    ELSE <<Head(bs)>> \o FilterOutId(Tail(bs), id)

\* The values a repository call returns.
RetNone == [kind |-> "none"]

RetNull == [kind |-> "null"]

RetBook(b) == [kind |-> "book", book |-> b]

RetBool(v) == [kind |-> "bool", val |-> v]

(***************************************************************************)
(* storage.js: localStorage under the key booksVault:data.                 *)
(***************************************************************************)
\* nothing is stored under the key
Absent == [kind |-> "absent"]

\* the stored text is JSON.stringify(bs); the records hold strings only, and
\* the text parses back to the same records
Json(bs) == [kind |-> "json", data |-> bs]

\* the stored text does not parse
Garbage == [kind |-> "garbage"]

\* loadBooks(): data ? JSON.parse(data) : [], and [] when parsing throws
loadBooks(st) == IF st.kind = "json" THEN st.data ELSE <<>>

\* a saveBooks that writes only while the key holds no collection yet
saveBooksOnce(st, bs, ok) == IF ok /\ st.kind # "json" THEN Json(bs) ELSE st

\* saveBooks(books): what the key holds afterwards; setItem throws when ok is
\* FALSE (quota exceeded, storage disabled) and the key keeps its value
saveBooks(st, bs, ok) == IF ok THEN Json(bs) ELSE st

\* clearAllData(): removeItem
clearAllData(st) == Absent

(***************************************************************************)
(* storage.js: importFromJSON.                                             *)
(*                                                                         *)
(* A JSON text is modelled by what JSON.parse makes of it: a text that     *)
(* does not parse, or the parsed value. An element of a parsed array is an *)
(* object (kind "object", with the object under o), null, or a number.     *)
(***************************************************************************)
MalformedText == [kind |-> "malformed"]

\* the text of a value that is no array, such as {} or 5
NonArrayText == [kind |-> "nonarray"]

\* the text of an array with these elements
ArrayText(elements) == [kind |-> "array", elements |-> elements]

JObject(o) == [kind |-> "object", o |-> o]

JNull == [kind |-> "null"]

JNumber == [kind |-> "number"]

\* book[field] of an element: a number has no such property
Element(e) == IF e.kind = "object" THEN e.o ELSE <<>>

\* isNaN(parseInt(s)): after leading white space and an optional sign there
\* is no digit
RECURSIVE ParseIntIsNaN(_)
ParseIntIsNaN(s) ==
    IF s = <<>> THEN TRUE
    ELSE IF IsSpace(s[1]) THEN ParseIntIsNaN(Tail(s))
    ELSE IF s[1] \in {"+", "-"} THEN Len(s) < 2 \/ ~IsDigit(s[2])
    ELSE ~IsDigit(s[1])

RequiredFields == <<"title", "author", "pages", "tag", "date">>

ImportError(type, index, field) == [type |-> type, index |-> index, field |-> field]

\* the errors the loop body pushes for element i (counted from 0), given the
\* set of ids seen before it; book is an object
ElementErrors(book, i, ids) ==
    LET missing == SelectSeq(RequiredFields, LAMBDA f : ~Truthy(book, f))
    IN  [j \in 1..Len(missing) |-> ImportError("MissingField", i, missing[j])]
        \o (IF "id" \in DOMAIN book /\ book["id"] \in ids
            THEN <<ImportError("DuplicateId", i, "id")>> ELSE <<>>)
        \o (IF Truthy(book, "pages") /\ ParseIntIsNaN(book["pages"])
            THEN <<ImportError("InvalidPages", i, "pages")>> ELSE <<>>)
        \o (IF Truthy(book, "date") /\ ~ImportDatePattern(book["date"])
            THEN <<ImportError("InvalidDate", i, "date")>> ELSE <<>>)

\* the for loop from element i on: [errors, threw]; reading a property of
\* null throws, which leaves the loop
RECURSIVE ImportScan(_, _, _, _)
ImportScan(elements, i, ids, errors) ==
    IF i > Len(elements) THEN [errors |-> errors, threw |-> FALSE]
    ELSE IF elements[i].kind = "null" THEN [errors |-> errors, threw |-> TRUE]
    ELSE LET book == Element(elements[i])
         IN  ImportScan(elements, i + 1,
                        IF "id" \in DOMAIN book THEN ids \cup {book["id"]} ELSE ids,
                        errors \o ElementErrors(book, i - 1, ids))

\* an import that accepts the elements it found no error in and hands them
\* out next to the errors of the others
importFromJSONPartial(text) ==
    IF text.kind # "array" THEN [valid |-> FALSE, hasData |-> FALSE, data |-> <<>>,
                                 errors |-> <<ImportError("MalformedInput", 0, "")>>]
    ELSE LET scan == ImportScan(text.elements, 1, {}, <<>>)
             bad  == {scan.errors[j].index + 1 : j \in DOMAIN scan.errors}
             good == SelectSeq([i \in 1..Len(text.elements) |-> i],
                               LAMBDA i : i \notin bad /\ text.elements[i].kind = "object")
         IN  [valid |-> TRUE, hasData |-> TRUE,
              data |-> [j \in 1..Len(good) |-> text.elements[good[j]].o],
              errors |-> scan.errors]

\* importFromJSON(jsonString): {valid, data, errors}; data is null when hasData
\* is FALSE
importFromJSON(text) ==
    LET failed(errors) == [valid |-> FALSE, hasData |-> FALSE, data |-> <<>>,
                           errors |-> errors]
    IN  IF text.kind = "malformed"
        THEN failed(<<ImportError("MalformedInput", 0, "")>>)
        ELSE IF text.kind = "nonarray"
        THEN failed(<<ImportError("ShapeError", 0, "")>>)
        ELSE LET scan == ImportScan(text.elements, 1, {}, <<>>)
             IN  IF scan.threw
                 THEN failed(scan.errors \o <<ImportError("MalformedInput", 0, "")>>)
                 ELSE IF Len(scan.errors) > 0
                 THEN failed(scan.errors)
                 ELSE [valid |-> TRUE, hasData |-> TRUE,
                       data |-> [i \in 1..Len(text.elements) |-> text.elements[i].o],
                       errors |-> <<>>]

\* an export that leaves the id of every record out
exportToJSONWithoutIds(bs) ==
    ArrayText([i \in DOMAIN bs |->
                 JObject([k \in (DOMAIN bs[i]) \ {"id"} |-> bs[i][k]])])

\* exportToJSON(books): JSON.stringify(books, null, 2), the text of an array
\* with one object per record, which holds the keys of the record
exportToJSON(bs) == ArrayText([i \in DOMAIN bs |-> JObject(bs[i])])

(***************************************************************************)
(* validators.js: compileRegex, matchesSearch, filterBooks.                *)
(*                                                                         *)
(* The search expressions of the model are literal words (letters, digits  *)
(* and spaces, which match themselves) and expressions with a character    *)
(* class that is not closed, which new RegExp rejects with a SyntaxError.  *)
(* The flags are "i", "g" or "gi".                                         *)
(***************************************************************************)
NoRegex == [kind |-> "null"]

RegExp(pattern, flags) ==
    [kind |-> "regex", source |-> pattern, global |-> flags \in {"g", "gi"},
     ignoreCase |-> flags \in {"i", "gi"}, lastIndex |-> 0]

\* new RegExp(pattern) throws: a "[" that no "]" closes
PatternSyntaxError(pattern) ==
    \E i \in DOMAIN pattern :
        pattern[i] = "[" /\ \A j \in (i + 1)..Len(pattern) : pattern[j] # "]"

\* compileRegex(pattern, flags): null for the empty pattern and for a pattern
\* that does not compile
compileRegex(pattern, flags) ==
    IF pattern = <<>> THEN NoRegex
    ELSE IF PatternSyntaxError(pattern) THEN NoRegex
    ELSE RegExp(pattern, flags)

\* the literal pattern matches text at offset i (counted from 0)
MatchesAt(re, text, i) ==
    /\ i + Len(re.source) <= Len(text)
    /\ \A k \in 1..Len(re.source) :
          IF re.ignoreCase
          THEN Canonicalize(text[i + k]) = Canonicalize(re.source[k])
          ELSE text[i + k] = re.source[k]

\* regex.test(text): [result, lastIndex]. A global regex starts at lastIndex
\* and leaves lastIndex at the end of the match, or at 0 when there is none;
\* another regex starts at 0 and leaves lastIndex alone.
RegExpTest(re, text) ==
    LET start == IF re.global THEN re.lastIndex ELSE 0
        hits  == {i \in start..Len(text) : MatchesAt(re, text, i)}
    IN  IF start > Len(text) \/ hits = {}
        THEN [result |-> FALSE, lastIndex |-> IF re.global THEN 0 ELSE re.lastIndex]
        ELSE LET first == CHOOSE i \in hits : \A j \in hits : i <= j
             IN  [result |-> TRUE,
                  lastIndex |-> IF re.global THEN first + Len(re.source)
                                ELSE re.lastIndex]

\* [title, author, tag, notes || '', date].join(' ')
SearchableText(book) ==
    Get(book, "title") \o <<" ">> \o Get(book, "author") \o <<" ">>
        \o Get(book, "tag") \o <<" ">> \o Get(book, "notes") \o <<" ">>
        \o Get(book, "date")

\* matchesSearch(book, regex): [result, lastIndex] for a compiled regex
matchesSearch(book, re) == RegExpTest(re, SearchableText(book))

\* books.filter(book => matchesSearch(book, regex)) from book i on, with the
\* one regex object: [books, lastIndex]
RECURSIVE FilterFrom(_, _, _, _)
FilterFrom(bs, i, re, kept) ==
    IF i > Len(bs) THEN [books |-> kept, lastIndex |-> re.lastIndex]
    ELSE LET t == matchesSearch(bs[i], re)
         IN  FilterFrom(bs, i + 1, [re EXCEPT !.lastIndex = t.lastIndex],
                        IF t.result THEN Append(kept, bs[i]) ELSE kept)

\* filterBooks(books, regex): [books, lastIndex]
filterBooks(bs, re) ==
    IF re.kind = "null" THEN [books |-> bs, lastIndex |-> 0]
    ELSE FilterFrom(bs, 1, re, <<>>)

(***************************************************************************)
(* validators.js: escapeHtml, highlightMatches; ui.js: createBookRow.      *)
(***************************************************************************)
\* what innerHTML gives for a character of textContent
EscapeChar(c) ==
    CASE c = "&" -> <<"&", "a", "m", "p", ";">>
      [] c = "<" -> <<"&", "l", "t", ";">>
      [] c = ">" -> <<"&", "g", "t", ";">>
      [] OTHER -> <<c>>

\* escapeHtml(text): div.textContent = text; return div.innerHTML
RECURSIVE escapeHtml(_)
escapeHtml(text) ==
    IF text = <<>> THEN <<>> ELSE EscapeChar(Head(text)) \o escapeHtml(Tail(text))

MarkOpen == <<"<", "m", "a", "r", "k", ">">>

MarkClose == <<"<", "/", "m", "a", "r", "k", ">">>

\* text.replace(regex, match => `<mark>${match}</mark>`) from offset i on
\* (counted from 0): every match in turn when all is TRUE, as for a global
\* regex, and the first match only otherwise
RECURSIVE ReplaceFrom(_, _, _, _)
ReplaceFrom(text, re, i, all) ==
    IF i >= Len(text) THEN <<>>
    ELSE IF MatchesAt(re, text, i)
    THEN MarkOpen \o SubSeq(text, i + 1, i + Len(re.source)) \o MarkClose
            \o (IF all THEN ReplaceFrom(text, re, i + Len(re.source), all)
                ELSE SubSeq(text, i + Len(re.source) + 1, Len(text)))
    ELSE <<text[i + 1]>> \o ReplaceFrom(text, re, i + 1, all)

\* highlightMatches(text, regex)
highlightMatches(text, re) ==
    IF re.kind = "null" \/ text = <<>> THEN text
    ELSE ReplaceFrom(escapeHtml(text), re, 0, re.global)

\* createBookRow: what a cell of the title, the author or the tag holds as
\* HTML for the text of the field
CellHtml(text, re) == IF re.kind = "regex" THEN highlightMatches(text, re) ELSE text

(***************************************************************************)
(* validators.js: sortBooks.                                               *)
(***************************************************************************)
\* a number or NaN
NaN == [nan |-> TRUE, v |-> 0]

Num(v) == [nan |-> FALSE, v |-> v]

\* x - y as a comparator result; sort takes NaN for 0
Minus(x, y) == IF x.nan \/ y.nan THEN 0 ELSE x.v - y.v

\* the days before the first of month m of year y, counted from year 0
RECURSIVE DaysBeforeMonth(_, _)
DaysBeforeMonth(y, m) ==
    IF m = 1 THEN 365 * y + (y + 3) \div 4 - (y + 99) \div 100 + (y + 399) \div 400
    ELSE DaysBeforeMonth(y, m - 1) + DaysInMonth(y, m - 1)

\* new Date(s).getTime() in days, for a string of the form dddd-dd-dd: NaN
\* for a month outside 01-12 or a day outside 01-31, and for a day the month
\* does not have on an engine that is not lenient. A string of another form
\* is taken as NaN.
DateValue(s, lenient) ==
    IF ~DatePattern(s) \/ ~DateIsValid(s, lenient) THEN NaN
    ELSE Num(DaysBeforeMonth(DigitsToNat(SubSeq(s, 1, 4)), DigitsToNat(SubSeq(s, 6, 7)))
             + DigitsToNat(SubSeq(s, 9, 10)))

\* the digits a string starts with
RECURSIVE LeadingDigits(_)
LeadingDigits(s) ==
    IF s = <<>> \/ ~IsDigit(s[1]) THEN <<>>
    ELSE <<s[1]>> \o LeadingDigits(Tail(s))

\* parseInt(s)
RECURSIVE ParseInt(_)
ParseInt(s) ==
    IF ParseIntIsNaN(s) THEN NaN
    ELSE IF IsSpace(s[1]) THEN ParseInt(Tail(s))
    ELSE IF s[1] = "-" THEN Num(0 - DigitsToNat(LeadingDigits(Tail(s))))
    ELSE IF s[1] = "+" THEN Num(DigitsToNat(LeadingDigits(Tail(s))))
    ELSE Num(DigitsToNat(LeadingDigits(s)))

\* the place of a character in the collation order: letters by alphabet with
\* the lower case before the upper case, after the space and the digits
CharRank(c) ==
    IF c \in Range(LowerLetters)
    THEN 100 + 2 * (CHOOSE i \in DOMAIN LowerLetters : LowerLetters[i] = c)
    ELSE IF c \in Range(UpperLetters)
    THEN 101 + 2 * (CHOOSE i \in DOMAIN UpperLetters : UpperLetters[i] = c)
    ELSE IF IsDigit(c) THEN 50 + DigitVal(c)
    ELSE 0

\* a.localeCompare(b): negative, zero or positive
RECURSIVE LocaleCompare(_, _)
LocaleCompare(a, b) ==
    IF a = <<>> /\ b = <<>> THEN 0
    ELSE IF a = <<>> THEN -1
    ELSE IF b = <<>> THEN 1
    ELSE IF CharRank(a[1]) # CharRank(b[1]) THEN CharRank(a[1]) - CharRank(b[1])
    ELSE LocaleCompare(Tail(a), Tail(b))

\* the comparator of each sort option
Compare(a, b, sortBy, lenient) ==
    CASE sortBy = "date-desc" ->
            Minus(DateValue(Get(b, "date"), lenient), DateValue(Get(a, "date"), lenient))
      [] sortBy = "date-asc" ->
            Minus(DateValue(Get(a, "date"), lenient), DateValue(Get(b, "date"), lenient))
      [] sortBy = "title-asc" -> LocaleCompare(Get(a, "title"), Get(b, "title"))
      [] sortBy = "title-desc" -> LocaleCompare(Get(b, "title"), Get(a, "title"))
      [] sortBy = "pages-desc" ->
            Minus(ParseInt(Get(b, "pages")), ParseInt(Get(a, "pages")))
      [] sortBy = "pages-asc" ->
            Minus(ParseInt(Get(a, "pages")), ParseInt(Get(b, "pages")))
      [] OTHER -> 0

\* x put into the sorted sequence behind every element it does not precede
RECURSIVE InsertSorted(_, _, _, _)
InsertSorted(sorted, x, sortBy, lenient) ==
    IF sorted = <<>> THEN <<x>>
    ELSE IF Compare(sorted[Len(sorted)], x, sortBy, lenient) > 0
    THEN Append(InsertSorted(SubSeq(sorted, 1, Len(sorted) - 1), x, sortBy, lenient),
                sorted[Len(sorted)])
    ELSE Append(sorted, x)

\* [...books].sort(comparator): Array.prototype.sort is stable
RECURSIVE SortFrom(_, _, _, _, _)
SortFrom(bs, i, sorted, sortBy, lenient) ==
    IF i > Len(bs) THEN sorted
    ELSE SortFrom(bs, i + 1, InsertSorted(sorted, bs[i], sortBy, lenient), sortBy, lenient)

SortOptions == {"date-desc", "date-asc", "title-asc", "title-desc", "pages-desc", "pages-asc"}

sortBooks(bs, sortBy, lenient) ==
    IF sortBy \in SortOptions THEN SortFrom(bs, 1, <<>>, sortBy, lenient) ELSE bs

(***************************************************************************)
(* ui.js and main.js: the status elements and the list on display.         *)
(***************************************************************************)
StatusElements == {"form-status", "search-status", "settings-status"}

\* element.textContent = ''; element.className = ''
NoStatus == [text |-> "", class |-> ""]

\* showStatus(elementId, message, type): the element afterwards
StatusOf(message, type) == [text |-> message, class |-> type]

\* highlightMatches runs escaped.replace(regex, ...) on the title, the author
\* and the tag of every row that it is given a regex and a text for; replace
\* with a global regex leaves lastIndex at 0
LastIndexAfterRender(rows, re, lastIndex) ==
    IF /\ re.kind = "regex"
       /\ re.global
       /\ \E i \in DOMAIN rows :
             \E f \in {"title", "author", "tag"} : Truthy(rows[i], f)
    THEN 0
    ELSE lastIndex

\* refreshBooksDisplay(): the rows rendered, and lastIndex of the regex object
refreshBooksDisplay(bs, re, sortBy, lenient) ==
    LET filtered == filterBooks(bs, re)
        sorted   == sortBooks(filtered.books, sortBy, lenient)
    IN  [rows |-> sorted,
         lastIndex |-> LastIndexAfterRender(sorted, re, filtered.lastIndex)]

(***************************************************************************)
(* ui.js: the statistics of the dashboard.                                 *)
(***************************************************************************)
\* x + y of two numbers
Plus(x, y) == IF x.nan \/ y.nan THEN NaN ELSE Num(x.v + y.v)

\* books.reduce((sum, book) => sum + parseInt(book.pages || 0), 0) from
\* record i on
RECURSIVE SumPages(_, _, _)
SumPages(bs, i, sum) ==
    IF i > Len(bs) THEN sum
    ELSE SumPages(bs, i + 1,
                  Plus(sum, IF Truthy(bs[i], "pages") THEN ParseInt(bs[i]["pages"])
                            ELSE Num(0)))

\* updateDashboard: totalPages
totalPages(bs) == SumPages(bs, 1, Num(0))

\* Math.round(x / n) for a count n > 0: the nearest integer, a tie going up
MathRound(x, n) == IF x.nan THEN NaN ELSE Num((2 * x.v + n) \div (2 * n))

\* calculateAverageBookLength(books)
calculateAverageBookLength(bs) ==
    IF Len(bs) = 0 THEN Num(0) ELSE MathRound(totalPages(bs), Len(bs))

\* the property name that counts[book.tag] uses for a record without the field
Undefined == <<"u", "n", "d", "e", "f", "i", "n", "e", "d">>

\* book[field] as a property name
KeyOf(book, field) == IF field \in DOMAIN book THEN book[field] ELSE Undefined

\* a property name that is an array index: Object.entries lists these first,
\* in ascending order
IsIndexKey(k) == k = <<"0">> \/ PagesPattern(k)

RECURSIVE IndexKeysAscending(_)
IndexKeysAscending(ks) ==
    IF ks = {} THEN <<>>
    ELSE LET least == CHOOSE k \in ks : \A o \in ks : DigitsToNat(k) <= DigitsToNat(o)
         IN  <<least>> \o IndexKeysAscending(ks \ {least})

\* Object.entries(counts) of the object that counts the names of the sequence
\* ks: [name, count] pairs, index names first, then the others in the order
\* they were first assigned
ObjectEntries(ks) ==
    LET firsts == SelectSeq([i \in DOMAIN ks |-> i],
                            LAMBDA i : \A j \in 1..(i - 1) : ks[j] # ks[i])
        named  == SelectSeq(firsts, LAMBDA i : ~IsIndexKey(ks[i]))
        names  == IndexKeysAscending({ks[i] : i \in {j \in DOMAIN ks : IsIndexKey(ks[j])}})
                      \o [j \in DOMAIN named |-> ks[named[j]]]
    IN  [j \in DOMAIN names |->
            <<names[j], Cardinality({i \in DOMAIN ks : ks[i] = names[j]})>>]

\* the loop of getTopTag and getTopAuthor from entry i on
RECURSIVE TopFrom(_, _, _, _)
TopFrom(entries, i, top, maxCount) ==
    IF i > Len(entries) THEN top
    ELSE IF entries[i][2] > maxCount
    THEN TopFrom(entries, i + 1, entries[i][1], entries[i][2])
    ELSE TopFrom(entries, i + 1, top, maxCount)

\* getTopTag(books)
getTopTag(bs) ==
    IF Len(bs) = 0 THEN <<>>
    ELSE TopFrom(ObjectEntries([i \in DOMAIN bs |-> KeyOf(bs[i], "tag")]), 1, <<>>, 0)

\* getTopAuthor(books)
getTopAuthor(bs) ==
    IF Len(bs) = 0 THEN <<>>
    ELSE TopFrom(ObjectEntries([i \in DOMAIN bs |-> KeyOf(bs[i], "author")]), 1, <<>>, 0)

Uncategorized == <<"U", "n", "c", "a", "t", "e", "g", "o", "r", "i", "z", "e", "d">>

Other == <<"O", "t", "h", "e", "r">>

\* entries.sort((a, b) => b[1] - a[1]): by count, the larger first, entries
\* of one count in the order they had
RECURSIVE SortByCount(_, _, _)
SortByCount(entries, i, sorted) ==
    IF i > Len(entries) THEN sorted
    ELSE LET before == SelectSeq(sorted, LAMBDA e : e[2] >= entries[i][2])
             after  == SelectSeq(sorted, LAMBDA e : e[2] < entries[i][2])
         IN  SortByCount(entries, i + 1, before \o <<entries[i]>> \o after)

RECURSIVE SumOfCounts(_)
SumOfCounts(entries) ==
    IF entries = <<>> THEN 0 ELSE Head(entries)[2] + SumOfCounts(Tail(entries))

\* renderTopTagsChart: displayTags, the [tag, count] pairs of the chart
displayTags(bs) ==
    LET sortedTags ==
            SortByCount(ObjectEntries([i \in DOMAIN bs |->
                            IF Truthy(bs[i], "tag") THEN bs[i]["tag"] ELSE Uncategorized]),
                        1, <<>>)
    IN  IF Len(sortedTags) > 5
        THEN SubSeq(sortedTags, 1, 5)
                 \o <<<<Other, SumOfCounts(SubSeq(sortedTags, 6, Len(sortedTags)))>>>>
        ELSE sortedTags

\* renderTopTagsChart(books): the slices of the conic gradient, each from
\* currentDeg to currentDeg + count / total * 360; the degrees are kept as
\* exact multiples of 1 / total
renderTopTagsChart(bs) ==
    LET tags == displayTags(bs)
    IN  [j \in DOMAIN tags |->
            [tag   |-> tags[j][1],
             count |-> tags[j][2],
             from  |-> 360 * SumOfCounts(SubSeq(tags, 1, j - 1)),
             to    |-> 360 * SumOfCounts(SubSeq(tags, 1, j - 1)) + 360 * tags[j][2],
             over  |-> Len(bs)]]

(***************************************************************************)
(* The values the model draws its inputs from.                             *)
(***************************************************************************)
TitleDune == <<"D", "u", "n", "e">>

TitleEmma == <<"E", "m", "m", "a">>

AuthorAl == <<"A", "l">>

TagSciFi == <<"S", "c", "i", "-", "F", "i">>

PagesSeven == <<"7">>

DateFeb28 == <<"2", "0", "2", "5", "-", "0", "2", "-", "2", "8">>

\* what the book form holds for a valid book
BookDune == [title |-> TitleDune, author |-> AuthorAl, pages |-> PagesSeven,
             tag |-> TagSciFi, date |-> DateFeb28, notes |-> <<>>]

BookEmma == [BookDune EXCEPT !.title = TitleEmma]

\* a title with a leading space
BookBadTitle == [BookDune EXCEPT !.title = <<" ", "A">>]

\* an author with a digit
BookBadAuthor == [BookEmma EXCEPT !.author = <<"A", "1">>]

\* the values of Math.floor(Math.random() * 1000) the model draws
Randoms == {0, 1}

\* the ids generateId can return within the bounds
GeneratedIds == {generateId(t, r) : t \in 0..MaxClock, r \in Randoms}

\* a record as an earlier session, an import file or a caller may supply it:
\* with any id and any timestamps
StoredBook(data, id, created, updated) ==
    Spread(data, [id |-> id, createdAt |-> created, updatedAt |-> updated])

\* the arguments a caller passes to addBook and updateBook as fields
FieldsInputs ==
    { BookDune,
      [title |-> TitleEmma],
      [id |-> generateId(0, 0), title |-> TitleEmma,
       createdAt |-> MaxClock, updatedAt |-> 0] }

\* the arrays a caller passes to setBooks
SetBooksInputs ==
    { <<>>,
      <<StoredBook(BookDune, generateId(0, 0), 0, MaxClock)>>,
      <<StoredBook(BookDune, generateId(0, 1), 0, 0), BookEmma>> }

\* what localStorage holds when the page is opened
InitialStores == {Absent, Garbage, Json(<<StoredBook(BookEmma, generateId(0, 1), 0, 0)>>)}

\* what the user submits in the book form
FormInputs == {BookDune, BookBadTitle}

\* the files the user imports
ImportTexts ==
    { MalformedText,
      NonArrayText,
      ArrayText(<<JNull>>),
      ArrayText(<<JObject(StoredBook(BookDune, generateId(0, 0), 0, 0)),
                  JObject([k \in {"title", "author", "pages", "tag"} |-> BookEmma[k]])>>),
      ArrayText(<<JObject(BookBadAuthor)>>),
      ArrayText(<<JObject(StoredBook(BookDune, generateId(0, 0), 0, MaxClock)),
                  JObject(StoredBook(BookEmma, generateId(0, 1), 0, 0))>>) }

\* what the user types into the search box
SearchInputs == {<<>>, <<"A", "l">>, <<"[">>}

\* the options of the sort selector the model draws
SortInputs == {"date-desc", "title-asc"}

\* seed.json as the generator writes it: valid books with ids
\* book_gen_<timestamp>_<counter>, which are not of the form generateId
\* returns, and createdAt = updatedAt
SampleData ==
    << StoredBook(BookDune, <<-1, 1>>, 0, 0), StoredBook(BookEmma, <<-1, 2>>, 0, 0) >>

\* how the fetch of the sample data ends
FetchOutcomes == {"array", "notArray", "failed"}

(***************************************************************************)
(* storage.js: the settings under the key booksVault:settings.             *)
(***************************************************************************)
\* the settings loadSettings falls back to
DefaultSettings == [pageUnit |-> "pages", targetPages |-> 1000]

\* loadSettings(): the parsed settings, the defaults when the key is absent
\* or its text does not parse
loadSettings(st) == IF st.kind = "json" THEN st.data ELSE DefaultSettings

\* saveSettings(settings): what the key holds afterwards
saveSettings(st, value, ok) == IF ok THEN Json(value) ELSE st

(***************************************************************************)
(* ui.js and main.js: the reading goal of the progress bar.                *)
(***************************************************************************)
\* what the pages-target field holds when the page loads
PagesTargetDefault == <<>>

\* updateProgressBar(totalPages) with the pages-target field holding value:
\* the target, parseInt(targetInput.value) || 1000
updateProgressBar(value) ==
    LET target == ParseInt(value)
    IN  IF target.nan \/ target.v = 0 THEN 1000 ELSE target.v

\* String(n) of a number that is not negative
RECURSIVE NatToDigits(_)
NatToDigits(n) ==
    IF n < 10 THEN <<Digits[n + 1]>>
    ELSE NatToDigits(n \div 10) \o <<Digits[(n % 10) + 1]>>

(***************************************************************************)
(* state.js: the settings of the module.                                   *)
(***************************************************************************)
\* getSettings(): { ...settings }
getSettings(st) == [k \in DOMAIN st |-> st[k]]

\* updateSettings(newSettings): settings = { ...settings, ...newSettings }
updateSettings(st, newSettings) == Spread(st, newSettings)

\* the objects updateSettings is called with: the one handleSetTarget builds,
\* a unit alone, and objects with both fields
SettingsInputs ==
    {[targetPages |-> 500], [targetPages |-> 1000], [pageUnit |-> "minutes"],
     [pageUnit |-> "minutes", targetPages |-> 500],
     [pageUnit |-> "pages", targetPages |-> 500]}

\* what the pages-target field holds when the goal is set
TargetInputs == {<<"5">>, <<"1", "2">>, <<"0">>, <<"a">>, <<>>}

\* nothing was downloaded yet
NoDownload == [kind |-> "none"]

\* no validator, sortBooks or highlightMatches call was made yet
NoCall == [fn |-> "none"]

(***************************************************************************)
(* The state.                                                              *)
(***************************************************************************)
VARIABLES
    books,          \* state.js: the collection
    stored,         \* localStorage["booksVault:data"]
    storageOk,      \* localStorage.setItem works (FALSE: it throws)
    saveLog,        \* saveBooks in the latest repository call: none, ok, failed
    now,            \* the clock
    ret,            \* what the latest repository call returned
    callerArr,      \* the array a caller got from getBooks()
    held,           \* the record object a caller holds: its index in books,
                    \* 0 when it holds none or the object left the collection
    visited,        \* localStorage["visited"] is set
    modalOpen,      \* the onboarding modal is shown
    fetching,       \* a fetch of the sample data is in flight
    alert,          \* the latest alert() shown
    formId,         \* the hidden book-id field of the form: <<>> when empty
    formErrors,     \* the field errors the form shows
    resetPending,   \* a reset-form timeout of handleFormSubmit is pending
    currentSearchRegex,
    currentSortOption,
    displayed,      \* the rows of the table (and the cards)
    barTarget,      \* the target the progress bar was drawn with last
    status,         \* the status elements
    timers,         \* per status element, the auto-clear timers pending: 0, 1,
                    \* or 2 for two or more
    settings,       \* state.js: the settings object
    storedSettings, \* localStorage["booksVault:settings"]
    settingsSave,   \* the saveSettings that updateSettings defers is pending
    targetField,    \* the value of the pages-target field
    initPending,    \* the callback init() scheduled has not run yet
    call,           \* the latest call of a validator, of sortBooks or of
                    \* highlightMatches: its function, argument and result
    download        \* the text of the file handleExport downloaded last

repoVars == <<books, stored, saveLog, ret, held>>

uiVars == <<visited, modalOpen, fetching, alert, formId, formErrors, resetPending,
            currentSearchRegex, currentSortOption, displayed, barTarget, status, timers>>

\* what no handler of the collection changes
settingsVars == <<settings, storedSettings, settingsSave, targetField, initPending>>

envVars == <<storageOk, settingsVars, call, download>>

vars == <<books, stored, saveLog, now, ret, callerArr, held, uiVars, envVars>>

\* init() over a localStorage that holds one of stores and one of
\* settingsStores: initState(), checkFirstVisit(), refreshUI(); the callback
\* that fills the pages-target field is scheduled and has not run
InitWith(stores, settingsStores) ==
    /\ stored \in stores
    /\ storageOk \in BOOLEAN
    /\ visited \in BOOLEAN
    /\ books = loadBooks(stored)
    /\ saveLog = "none"
    /\ now = 0
    /\ ret = RetNone
    /\ callerArr = <<>>
    /\ held = 0
    /\ modalOpen = (~visited /\ books = <<>>)
    /\ fetching = FALSE
    /\ alert = "none"
    /\ formId = <<>>
    /\ formErrors = <<>>
    /\ resetPending = FALSE
    /\ currentSearchRegex = NoRegex
    /\ currentSortOption = "date-desc"
    /\ \E lenient \in BOOLEAN :
          displayed = refreshBooksDisplay(books, NoRegex, "date-desc", lenient).rows
    /\ status = [e \in StatusElements |-> NoStatus]
    /\ timers = [e \in StatusElements |-> 0]
    /\ storedSettings \in settingsStores
    /\ settings = loadSettings(storedSettings)
    /\ settingsSave = FALSE
    /\ targetField = PagesTargetDefault
    /\ initPending = TRUE
    /\ barTarget = updateProgressBar(targetField)
    /\ call = NoCall
    /\ download = NoDownload

\* init() over a localStorage that holds one of stores and no settings
InitFrom(stores) == InitWith(stores, {Absent})

\* init(): initState(), checkFirstVisit(), refreshUI()
Init == InitFrom(InitialStores)

\* time passes
Tick ==
    /\ now < MaxClock
    /\ now' = now + 1
    /\ UNCHANGED <<repoVars, envVars, callerArr, uiVars>>

\* saveBooks(bs) within a repository call
Save(bs) ==
    /\ stored' = saveBooks(stored, bs, storageOk)
    /\ saveLog' = IF storageOk THEN "ok" ELSE "failed"

NoSave ==
    /\ saveLog' = "none"
    /\ UNCHANGED stored

\* the index in bs.filter(book => book.id !== id) of the object that bs holds
\* at index i: 0 when the object was filtered out
IndexAfterFilter(bs, i, id) ==
    IF i = 0 THEN 0
    ELSE IF HasId(bs[i], id) THEN 0
    ELSE Cardinality({j \in 1..i : ~HasId(bs[j], id)})

(***************************************************************************)
(* state.js: the repository calls.                                         *)
(***************************************************************************)
addBook(bookData, random) ==
    LET newBook == NewBook(bookData, generateId(now, random), now)
    IN  /\ Len(books) < MaxBooks
        /\ books' = Append(books, newBook)
        /\ Save(books')
        /\ ret' = RetBook(newBook)
        /\ UNCHANGED held

\* an update that writes the collection back even when it found no record
updateBookAlwaysSaving(id, updates) ==
    LET index == FindIndex(books, id)
    IN  IF index = 0
        THEN /\ ret' = RetNull
             /\ Save(books)
             /\ UNCHANGED <<books, held>>
        ELSE /\ books' = [books EXCEPT ![index] = UpdatedBook(books[index], updates, now)]
             /\ Save(books')
             /\ ret' = RetBook(books'[index])
             /\ held' = IF held = index THEN 0 ELSE held

updateBook(id, updates) ==
    LET index == FindIndex(books, id)
    IN  IF index = 0
        THEN /\ ret' = RetNull
             /\ NoSave
             /\ UNCHANGED <<books, held>>
        ELSE /\ books' = [books EXCEPT ![index] = UpdatedBook(books[index], updates, now)]
             /\ Save(books')
             /\ ret' = RetBook(books'[index])
             /\ held' = IF held = index THEN 0 ELSE held

deleteBook(id) ==
    LET filtered == FilterOutId(books, id)
    IN  /\ books' = filtered
        /\ held' = IndexAfterFilter(books, held, id)
        /\ IF Len(filtered) < Len(books)
           THEN Save(filtered) /\ ret' = RetBool(TRUE)
           ELSE NoSave /\ ret' = RetBool(FALSE)

setBooks(newBooks) ==
    /\ books' = newBooks
    /\ Save(newBooks)
    /\ ret' = RetNone
    /\ held' = 0

\* getBooks(): [...books], a new array of the same record objects; the
\* caller keeps the array and the object at index i of it (none for 0)
getBooks(i) ==
    /\ callerArr' = books
    /\ held' = i
    /\ ret' = RetNone
    /\ UNCHANGED <<books, stored, saveLog>>

\* getBookById(id): books.find(book => book.id === id) || null; the caller
\* keeps the object
getBookById(id) ==
    LET index == FindIndex(books, id)
    IN  /\ held' = index
        /\ ret' = IF index = 0 THEN RetNull ELSE RetBook(books[index])
        /\ UNCHANGED <<books, stored, saveLog, callerArr>>

(***************************************************************************)
(* A caller of the repository.                                             *)
(***************************************************************************)
AddBookCall ==
    \E f \in FieldsInputs, r \in Randoms :
        addBook(f, r) /\ UNCHANGED <<envVars, now, callerArr, uiVars>>

UpdateBookCall ==
    \E id \in GeneratedIds, f \in FieldsInputs :
        updateBook(id, f) /\ UNCHANGED <<envVars, now, callerArr, uiVars>>

DeleteBookCall ==
    \E id \in GeneratedIds :
        deleteBook(id) /\ UNCHANGED <<envVars, now, callerArr, uiVars>>

SetBooksCall ==
    \E bs \in SetBooksInputs :
        /\ Len(bs) <= MaxBooks
        /\ setBooks(bs)
        /\ UNCHANGED <<envVars, now, callerArr, uiVars>>

GetBooksCall ==
    \E i \in 0..Len(books) : getBooks(i) /\ UNCHANGED <<envVars, now, uiVars>>

GetBookByIdCall ==
    \E id \in GeneratedIds : getBookById(id) /\ UNCHANGED <<envVars, now, uiVars>>

\* the caller changes the array it got from getBooks(): arr.pop()
CallerMutatesArray ==
    /\ callerArr # <<>>
    /\ callerArr' = SubSeq(callerArr, 1, Len(callerArr) - 1)
    /\ UNCHANGED <<repoVars, envVars, now, uiVars>>

\* the caller changes the record object it holds: book.title = value. The
\* object is the one the collection holds at index held, so the collection
\* shows the change; nothing is written to storage.
CallerMutatesRecord ==
    \E value \in {TitleDune, TitleEmma} :
        /\ held # 0
        /\ books' = [books EXCEPT ![held] = Spread(@, [title |-> value])]
        /\ UNCHANGED <<stored, envVars, saveLog, now, ret, callerArr, held, uiVars>>

NextRepo ==
    \/ Tick
    \/ AddBookCall
    \/ UpdateBookCall
    \/ DeleteBookCall
    \/ SetBooksCall

\* the repository under the calls of an arbitrary caller
SpecRepo == Init /\ [][NextRepo]_vars

NextUpdate ==
    \/ Tick
    \/ UpdateBookCall
    \/ DeleteBookCall
    \/ SetBooksCall

\* the repository under the calls that add no record
SpecUpdate == Init /\ [][NextUpdate]_vars

NextCaller ==
    \/ SetBooksCall
    \/ DeleteBookCall
    \/ GetBooksCall
    \/ GetBookByIdCall
    \/ CallerMutatesArray
    \/ CallerMutatesRecord

\* a caller that keeps and changes what the read accessors hand out
SpecCaller == Init /\ [][NextCaller]_vars

(***************************************************************************)
(* main.js: the event handlers.                                            *)
(***************************************************************************)
\* showStatus(el, message, type) as the only status call of a handler
ShowStatus(el, message, type) ==
    /\ status' = [status EXCEPT ![el] = StatusOf(message, type)]
    /\ timers' = [timers EXCEPT ![el] = IF @ = 0 THEN 1 ELSE 2]

\* refreshBooksDisplay() over the collection bs
RefreshBooksDisplay(bs) ==
    \E lenient \in BOOLEAN :
        LET r == refreshBooksDisplay(bs, currentSearchRegex, currentSortOption, lenient)
        IN  /\ displayed' = r.rows
            /\ currentSearchRegex' =
                  IF currentSearchRegex.kind = "regex"
                  THEN [currentSearchRegex EXCEPT !.lastIndex = r.lastIndex]
                  ELSE currentSearchRegex

\* refreshUI() over the collection bs: refreshBooksDisplay(), then
\* updateDashboard(), whose updateProgressBar reads the pages-target field
RefreshUI(bs) ==
    /\ RefreshBooksDisplay(bs)
    /\ barTarget' = updateProgressBar(targetField)

\* localStorage.setItem('visited', 'true'): TRUE when it returns, FALSE when it
\* throws, which a storage that takes no write may do
SetVisitedOutcomes == IF storageOk THEN {TRUE} ELSE BOOLEAN

\* handleFormSubmit with the form holding bookData
HandleFormSubmit(bookData) ==
    \E lenient \in BOOLEAN, random \in Randoms :
        LET validation == validateBook(bookData, lenient)
        IN  IF ~validation.valid
            THEN /\ formErrors' = validation.errors
                 /\ ShowStatus("form-status", "Please fix the errors above", "error")
                 /\ UNCHANGED <<repoVars, envVars, now, callerArr, visited, modalOpen,
                                fetching, alert, formId, resetPending,
                                currentSearchRegex, currentSortOption, displayed, barTarget>>
            ELSE /\ formErrors' = <<>>
                 /\ IF formId # <<>>
                    THEN /\ updateBook(formId, bookData)
                         /\ ShowStatus("form-status", "Book updated successfully!", "success")
                    ELSE /\ addBook(bookData, random)
                         /\ ShowStatus("form-status", "Book added successfully!", "success")
                 /\ resetPending' = TRUE
                 /\ UNCHANGED <<envVars, now, callerArr, visited, modalOpen, fetching,
                                alert, formId, currentSearchRegex, currentSortOption,
                                displayed, barTarget>>

\* the timeout handleFormSubmit set: resetBookForm(), refreshUI(); another
\* timeout of an earlier submit may still be pending
FormResetTimeout ==
    /\ resetPending
    /\ resetPending' \in BOOLEAN
    /\ formId' = <<>>
    /\ formErrors' = <<>>
    /\ RefreshUI(books)
    /\ UNCHANGED <<repoVars, envVars, now, callerArr, visited, modalOpen, fetching,
                   alert, currentSortOption, status, timers>>

\* handleSearch with the search box holding searchInput
HandleSearch(searchInput, caseSensitive) ==
    LET compiled == compileRegex(searchInput, IF caseSensitive THEN "g" ELSE "gi")
    IN  IF searchInput # <<>> /\ compiled.kind = "null"
        THEN /\ currentSearchRegex' = compiled
             /\ ShowStatus("search-status", "Invalid regex pattern", "error")
             /\ UNCHANGED <<repoVars, envVars, now, callerArr, visited, modalOpen,
                            fetching, alert, formId, formErrors, resetPending,
                            currentSortOption, displayed, barTarget>>
        ELSE /\ ShowStatus("search-status",
                           IF searchInput # <<>> THEN "Searching with pattern" ELSE "",
                           "info")
             /\ \E lenient \in BOOLEAN :
                   LET r == refreshBooksDisplay(books, compiled, currentSortOption, lenient)
                   IN  /\ displayed' = r.rows
                       /\ currentSearchRegex' =
                             IF compiled.kind = "regex"
                             THEN [compiled EXCEPT !.lastIndex = r.lastIndex]
                             ELSE compiled
             /\ UNCHANGED <<repoVars, envVars, now, callerArr, visited, modalOpen,
                            fetching, alert, formId, formErrors, resetPending,
                            currentSortOption, barTarget>>

\* handleSort with the selector at option
HandleSort(option) ==
    /\ currentSortOption' = option
    /\ \E lenient \in BOOLEAN :
          LET r == refreshBooksDisplay(books, currentSearchRegex, option, lenient)
          IN  /\ displayed' = r.rows
              /\ currentSearchRegex' =
                    IF currentSearchRegex.kind = "regex"
                    THEN [currentSearchRegex EXCEPT !.lastIndex = r.lastIndex]
                    ELSE currentSearchRegex
    /\ UNCHANGED <<repoVars, envVars, now, callerArr, visited, modalOpen, fetching,
                   alert, formId, formErrors, resetPending, barTarget, status, timers>>

\* the ids of the Edit and Delete buttons on display
ButtonIds == {displayed[i]["id"] : i \in {j \in DOMAIN displayed : "id" \in DOMAIN displayed[j]}}

\* handleActionButtons, the Edit button of a row: populateFormForEdit(book)
HandleEdit(bookId) ==
    /\ FindIndex(books, bookId) # 0
    /\ formId' = bookId
    /\ UNCHANGED <<repoVars, envVars, now, callerArr, visited, modalOpen, fetching,
                   alert, formErrors, resetPending, currentSearchRegex,
                   currentSortOption, displayed, barTarget, status, timers>>

\* handleActionButtons, the Delete button of a row, confirmed
HandleDelete(bookId) ==
    /\ FindIndex(books, bookId) # 0
    /\ deleteBook(bookId)
    /\ ShowStatus("search-status", "Book deleted successfully", "success")
    /\ RefreshUI(books')
    /\ UNCHANGED <<envVars, now, callerArr, visited, modalOpen, fetching, alert,
                   formId, formErrors, resetPending, currentSortOption>>

\* handleExport: the download of exportToJSON(getBooks()), and the status
HandleExport ==
    /\ download' = exportToJSON(books)
    /\ ShowStatus("settings-status", "Data exported successfully!", "success")
    /\ UNCHANGED <<repoVars, storageOk, settingsVars, call, now, callerArr, visited, modalOpen, fetching,
                   alert, formId, formErrors, resetPending, currentSearchRegex,
                   currentSortOption, displayed, barTarget>>

\* handleImport without a file chosen
HandleImportNoFile ==
    /\ ShowStatus("settings-status", "Please select a file", "error")
    /\ UNCHANGED <<repoVars, envVars, now, callerArr, visited, modalOpen, fetching,
                   alert, formId, formErrors, resetPending, currentSearchRegex,
                   currentSortOption, displayed, barTarget>>

\* handleImport, reader.onload with the text of the file
HandleImport(text) ==
    LET result == importFromJSON(text)
    IN  IF ~result.valid
        THEN /\ ShowStatus("settings-status", "Import failed", "error")
             /\ UNCHANGED <<repoVars, envVars, now, callerArr, visited, modalOpen,
                            fetching, alert, formId, formErrors, resetPending,
                            currentSearchRegex, currentSortOption, displayed, barTarget>>
        ELSE /\ Len(result.data) <= MaxBooks
             /\ setBooks(result.data)
             /\ \E written \in SetVisitedOutcomes :
                   IF written
                   THEN /\ visited' = TRUE
                        /\ RefreshUI(books')
                        /\ ShowStatus("settings-status", "Data imported successfully!",
                                      "success")
                   ELSE UNCHANGED <<visited, displayed, barTarget, currentSearchRegex, status, timers>>
             /\ UNCHANGED <<envVars, now, callerArr, modalOpen, fetching, alert,
                            formId, formErrors, resetPending, currentSortOption>>

\* handleClearData, confirmed: clearAllData(), setBooks([])
HandleClearData ==
    /\ books' = <<>>
    /\ stored' = saveBooks(clearAllData(stored), <<>>, storageOk)
    /\ saveLog' = IF storageOk THEN "ok" ELSE "failed"
    /\ ret' = RetNone
    /\ held' = 0
    /\ RefreshUI(books')
    /\ ShowStatus("settings-status", "All data cleared", "success")
    /\ UNCHANGED <<envVars, now, callerArr, visited, modalOpen, fetching, alert,
                   formId, formErrors, resetPending, currentSortOption>>

\* handleLoadSample: the button of the onboarding modal starts the fetch
HandleLoadSample ==
    /\ modalOpen
    /\ fetching' = TRUE
    /\ UNCHANGED <<repoVars, envVars, now, callerArr, visited, modalOpen, alert,
                   formId, formErrors, resetPending, currentSearchRegex,
                   currentSortOption, displayed, barTarget, status, timers>>

\* the fetch of handleLoadSample ends; another fetch may still be in flight
FetchDone(outcome) ==
    /\ fetching
    /\ fetching' \in BOOLEAN
    /\ CASE outcome = "array" ->
              /\ Len(SampleData) <= MaxBooks
              /\ setBooks(SampleData)
              /\ \E written \in SetVisitedOutcomes :
                    IF written
                    THEN /\ visited' = TRUE
                         /\ modalOpen' = FALSE
                         /\ RefreshUI(books')
                         /\ ShowStatus("search-status", "Sample data loaded successfully!",
                                       "success")
                         /\ UNCHANGED alert
                    ELSE /\ alert' = "Failed to load sample data"
                         /\ UNCHANGED <<visited, modalOpen, displayed, barTarget, currentSearchRegex,
                                        status, timers>>
         [] outcome = "notArray" ->
              UNCHANGED <<repoVars, visited, modalOpen, alert, displayed, barTarget,
                          currentSearchRegex, status, timers>>
         [] outcome = "failed" ->
              /\ alert' = "Failed to load sample data"
              /\ UNCHANGED <<repoVars, visited, modalOpen, displayed, barTarget, currentSearchRegex,
                             status, timers>>
    /\ UNCHANGED <<envVars, now, callerArr, formId, formErrors, resetPending,
                   currentSortOption>>

\* handleStartFresh: the other button of the onboarding modal
HandleStartFresh ==
    /\ modalOpen
    /\ \E written \in SetVisitedOutcomes :
          IF written
          THEN /\ visited' = TRUE
               /\ modalOpen' = FALSE
               /\ ShowStatus("search-status", "Welcome!", "info")
          ELSE UNCHANGED <<visited, modalOpen, status, timers>>
    /\ UNCHANGED <<repoVars, envVars, now, callerArr, fetching, alert, formId,
                   formErrors, resetPending, currentSearchRegex, currentSortOption,
                   displayed, barTarget>>

\* the auto-clear timeout of showStatus on an element: the oldest of its
\* pending timers fires (all run for 5 seconds); of two or more, one or more
\* stay pending
StatusTimeout(el) ==
    /\ timers[el] > 0
    /\ status' = [status EXCEPT ![el] = NoStatus]
    /\ timers' \in IF timers[el] = 1
                   THEN {[timers EXCEPT ![el] = 0]}
                   ELSE {[timers EXCEPT ![el] = 1], timers}
    /\ UNCHANGED <<repoVars, envVars, now, callerArr, visited, modalOpen, fetching,
                   alert, formId, formErrors, resetPending, currentSearchRegex,
                   currentSortOption, displayed, barTarget>>

\* the book form and the buttons of the table
NextForm ==
    \/ Tick
    \/ \E bookData \in FormInputs : HandleFormSubmit(bookData)
    \/ FormResetTimeout
    \/ \E bookId \in ButtonIds : HandleEdit(bookId)
    \/ \E bookId \in ButtonIds : HandleDelete(bookId)

SpecForm == Init /\ [][NextForm]_vars

\* the settings page and the onboarding modal
NextImport ==
    \/ \E text \in ImportTexts : HandleImport(text)
    \/ HandleImportNoFile
    \/ HandleExport
    \/ HandleClearData
    \/ HandleLoadSample
    \/ \E outcome \in FetchOutcomes : FetchDone(outcome)
    \/ HandleStartFresh
    \/ \E bookId \in ButtonIds : HandleDelete(bookId)

SpecImport == Init /\ [][NextImport]_vars

\* the import and the clearing of the collection alone
NextImportOnly ==
    \/ \E text \in ImportTexts : HandleImport(text)
    \/ HandleImportNoFile
    \/ HandleClearData

SpecImportOnly == Init /\ [][NextImportOnly]_vars

\* the records an earlier session may have left in localStorage
ExportRecords ==
    { StoredBook(BookDune, generateId(0, 0), 0, 0),
      StoredBook(BookEmma, generateId(0, 1), 0, 1),
      StoredBook([BookDune EXCEPT !.pages = <<"a", "b", "c">>], generateId(1, 0), 0, 0),
      StoredBook([k \in {"title", "author", "pages", "tag"} |-> BookEmma[k]],
                 generateId(1, 1), 0, 0) }

\* the sequences of at most n elements of set
SeqsUpTo(set, n) == UNION {[1..m -> set] : m \in 0..n}

ExportStores == {Json(bs) : bs \in SeqsUpTo(ExportRecords, MaxBooks)}

\* handleImport, reader.onload with the file handleExport downloaded
HandleImportDownload ==
    /\ download # NoDownload
    /\ HandleImport(download)

\* export and import over the collections of ExportStores
NextExport ==
    \/ HandleExport
    \/ HandleImportDownload
    \/ \E bookId \in ButtonIds : HandleDelete(bookId)

InitExport == InitFrom(ExportStores)

SpecExport == InitExport /\ [][NextExport]_vars

\* the search box and the sort selector over a collection that imports and
\* deletions change
NextSearch ==
    \/ \E searchInput \in SearchInputs, caseSensitive \in BOOLEAN :
          HandleSearch(searchInput, caseSensitive)
    \/ \E option \in SortInputs : HandleSort(option)
    \/ \E bookId \in ButtonIds : HandleDelete(bookId)
    \/ \E text \in ImportTexts : HandleImport(text)
    \/ \E el \in StatusElements : StatusTimeout(el)

SpecSearch == Init /\ [][NextSearch]_vars

(***************************************************************************)
(* Calls of the pure functions, under the page as it is first opened on an *)
(* empty store.                                                            *)
(***************************************************************************)
InitPure ==
    /\ Init
    /\ stored = Absent
    /\ storageOk
    /\ visited

\* the records sortBooks is called on: two titles, two page counts, and the
\* dates 2025-03-01, 2025-01-01, 2025-13-45 (no date on any engine) and
\* 2025-02-30 (a date on a lenient engine only)
SortRecords ==
    { [title |-> <<"b">>, pages |-> <<"7">>,
       date |-> <<"2", "0", "2", "5", "-", "0", "3", "-", "0", "1">>],
      [title |-> <<"a">>, pages |-> <<"1", "0">>,
       date |-> <<"2", "0", "2", "5", "-", "1", "3", "-", "4", "5">>],
      [title |-> <<"a">>, pages |-> <<"7">>,
       date |-> <<"2", "0", "2", "5", "-", "0", "1", "-", "0", "1">>],
      [title |-> <<"A">>, pages |-> <<"9">>,
       date |-> <<"2", "0", "2", "5", "-", "0", "2", "-", "3", "0">>] }

\* the criteria sortBooks is called with: its six, and one it does not know
SortCriteria == SortOptions \cup {"author-asc"}

\* sortBooks(books, sortBy) on an array of records
SortCall ==
    /\ call = NoCall
    /\ \E bs \in SeqsUpTo(SortRecords, MaxSortLen), sortBy \in SortCriteria,
          lenient \in BOOLEAN :
          call' = [fn |-> "sortBooks", arg |-> bs, sortBy |-> sortBy,
                   lenient |-> lenient, res |-> sortBooks(bs, sortBy, lenient)]
    /\ UNCHANGED <<repoVars, uiVars, storageOk, settingsVars, download, now, callerArr>>

\* the caller is done with the result
CallReturns ==
    /\ call # NoCall
    /\ call' = NoCall
    /\ UNCHANGED <<repoVars, uiVars, storageOk, settingsVars, download, now, callerArr>>

NextSort == SortCall \/ CallReturns

\* the texts of at most n characters over the characters of set
TextsUpTo(set, n) == UNION {[1..m -> set] : m \in 0..n}

\* the texts highlightMatches is called on
HighlightTexts == TextsUpTo({"a", "t", "<"}, MaxTextLen)

\* the search expressions of the matchers
HighlightPatterns == {<<"a">>, <<"t">>, <<"a", "t">>}

\* the matchers highlightMatches is called with: none, and what compileRegex
\* returns with its default flags and with the flags of the search box
HighlightMatchers ==
    {NoRegex} \cup {compileRegex(pattern, flags) :
                       pattern \in HighlightPatterns, flags \in {"i", "g", "gi"}}

\* highlightMatches(text, regex), and the cell createBookRow makes of text
HighlightCall ==
    /\ call = NoCall
    /\ \E text \in HighlightTexts, re \in HighlightMatchers :
          call' = [fn |-> "highlightMatches", text |-> text, re |-> re,
                   res |-> highlightMatches(text, re), cell |-> CellHtml(text, re)]
    /\ UNCHANGED <<repoVars, uiVars, storageOk, settingsVars, download, now, callerArr>>

NextHighlight == HighlightCall \/ CallReturns

\* updateSettings(newSettings), then getSettings(); the save runs once the
\* import of storage.js resolves
UpdateSettingsCall ==
    /\ call = NoCall
    /\ \E newSettings \in SettingsInputs :
          /\ settings' = updateSettings(settings, newSettings)
          /\ call' = [fn |-> "updateSettings", arg |-> newSettings,
                      before |-> settings, res |-> getSettings(settings')]
    /\ settingsSave' = TRUE
    /\ UNCHANGED <<repoVars, uiVars, storageOk, storedSettings, targetField, initPending,
                   download, now, callerArr>>

\* the callback of updateSettings: saveSettings(settings)
SaveSettingsDone ==
    /\ settingsSave
    /\ storedSettings' = saveSettings(storedSettings, settings, storageOk)
    /\ settingsSave' = FALSE
    /\ UNCHANGED <<repoVars, uiVars, storageOk, settings, targetField, initPending, call,
                   download, now, callerArr>>

\* handleSetTarget with the pages-target field holding value
HandleSetTarget(value) ==
    LET target == ParseInt(value)
    IN  /\ targetField' = value
        /\ IF target.nan \/ target.v <= 0
           THEN /\ ShowStatus("settings-status", "Please enter a valid target", "error")
                /\ UNCHANGED <<repoVars, storageOk, settings, storedSettings,
                               settingsSave, initPending, call, download, now, callerArr,
                               visited, modalOpen, fetching, alert, formId, formErrors,
                               resetPending, currentSearchRegex, currentSortOption,
                               displayed, barTarget>>
           ELSE /\ settings' = updateSettings(settings, [targetPages |-> target.v])
                /\ settingsSave' = TRUE
                /\ ShowStatus("settings-status", "Reading goal set", "success")
                /\ RefreshBooksDisplay(books)
                /\ barTarget' = updateProgressBar(value)
                /\ UNCHANGED <<repoVars, storageOk, storedSettings, initPending, call,
                               download, now, callerArr, visited, modalOpen, fetching,
                               alert, formId, formErrors, resetPending, currentSortOption>>

\* the settings: the goal set from the page, updateSettings called directly
NextSettings ==
    \/ UpdateSettingsCall
    \/ SaveSettingsDone
    \/ \E value \in TargetInputs : HandleSetTarget(value)
    \/ StatusTimeout("settings-status")
    \/ CallReturns

SpecSettings == InitPure /\ [][NextSettings]_vars

\* the settings a visit may find stored: none, or a goal of 500 pages
SettingsStores == {Absent, Json([pageUnit |-> "pages", targetPages |-> 500])}

\* init() over a storage that takes writes, with a collection of earlier visits
InitTarget ==
    /\ InitWith({Absent}, SettingsStores)
    /\ storageOk
    /\ visited

\* the callback init() scheduled: the pages-target field takes
\* settings.targetPages when that is truthy; nothing is drawn again
InitCallback ==
    /\ initPending
    /\ initPending' = FALSE
    /\ targetField' = IF "targetPages" \in DOMAIN settings /\ settings["targetPages"] # 0
                      THEN NatToDigits(settings["targetPages"])
                      ELSE targetField
    /\ UNCHANGED <<repoVars, uiVars, storageOk, settings, storedSettings, settingsSave,
                   call, download, now, callerArr>>

\* the user types value into the pages-target field and does not press Set
TypeTarget(value) ==
    /\ targetField' = value
    /\ UNCHANGED <<repoVars, uiVars, storageOk, settings, storedSettings, settingsSave,
                   initPending, call, download, now, callerArr>>

\* the reading goal: the page loads, the goal is typed and set, and the page
\* is drawn again
NextTarget ==
    \/ InitCallback
    \/ \E value \in TargetInputs : TypeTarget(value)
    \/ \E value \in TargetInputs : HandleSetTarget(value)
    \/ SaveSettingsDone
    \/ HandleClearData
    \/ StatusTimeout("settings-status")

SpecTarget == InitTarget /\ [][NextTarget]_vars


\* import files whose records carry timestamps: one written by an export, one
\* edited by hand so that createdAt is later than updatedAt
StampedTexts ==
    { ArrayText(<<JObject(StoredBook(BookDune, generateId(0, 0), 0, MaxClock))>>),
      ArrayText(<<JObject(StoredBook(BookEmma, generateId(0, 1), MaxClock, 0))>>) }

\* the operations that put records into the collection or stamp them
NextStamps ==
    \/ Tick
    \/ AddBookCall
    \/ UpdateBookCall
    \/ DeleteBookCall
    \/ \E text \in StampedTexts : HandleImport(text)
    \/ HandleLoadSample
    \/ \E outcome \in FetchOutcomes : FetchDone(outcome)

\* the first visit, on an empty store that takes writes
InitStamps ==
    /\ Init
    /\ stored = Absent
    /\ storageOk
    /\ ~visited

SpecStamps == InitStamps /\ [][NextStamps]_vars

\* the elements of an import file: a record, a record without a date, a
\* record with an empty title, null, and a number
ImportElements ==
    { JObject(StoredBook(BookDune, generateId(0, 0), 0, 0)),
      JObject([k \in {"title", "author", "pages", "tag"} |-> BookEmma[k]]),
      JObject([BookDune EXCEPT !.title = <<>>]),
      JNull,
      JNumber }

\* importFromJSON(jsonString) on a text that parses to an array or to
\* something else, or does not parse
ImportCall ==
    /\ call = NoCall
    /\ \E text \in {ArrayText(es) : es \in SeqsUpTo(ImportElements, MaxElements)}
                    \cup {MalformedText, NonArrayText} :
          call' = [fn |-> "importFromJSON", arg |-> text, res |-> importFromJSON(text)]
    /\ UNCHANGED <<repoVars, uiVars, storageOk, settingsVars, download, now, callerArr>>

NextImportCall == ImportCall \/ CallReturns

SpecImportCall == InitPure /\ [][NextImportCall]_vars

\* records as updateDashboard may find them in the collection: with page
\* counts of 7, 8 and 10, with a pages text that is no number, without pages
PagesRecords ==
    { [title |-> TitleDune, pages |-> <<"7">>],
      [title |-> TitleDune, pages |-> <<"8">>],
      [title |-> TitleDune, pages |-> <<"1", "0">>],
      [title |-> TitleDune, pages |-> <<"a", "b", "c">>],
      [title |-> TitleDune] }

\* updateDashboard(books): the total pages and the average length
DashboardCall ==
    /\ call = NoCall
    /\ \E bs \in SeqsUpTo(PagesRecords, MaxShelf) :
          call' = [fn |-> "updateDashboard", arg |-> bs,
                   totalPages |-> totalPages(bs),
                   avgLength |-> calculateAverageBookLength(bs)]
    /\ UNCHANGED <<repoVars, uiVars, storageOk, settingsVars, download, now, callerArr>>

\* records with the tags and authors a, b and 2; a text of digits passes the
\* checks of importFromJSON
TaggedRecords ==
    { [tag |-> <<t>>, author |-> <<a>>] : t \in {"a", "b", "2"}, a \in {"a", "2"} }

\* getTopTag(books) and getTopAuthor(books) within updateDashboard
GetTopCall ==
    /\ call = NoCall
    /\ \E bs \in SeqsUpTo(TaggedRecords, MaxShelf) :
          call' = [fn |-> "getTop", arg |-> bs,
                   topTag |-> getTopTag(bs), topAuthor |-> getTopAuthor(bs)]
    /\ UNCHANGED <<repoVars, uiVars, storageOk, settingsVars, download, now, callerArr>>

\* collections for the chart of the tags: none, four or five tags to begin
\* with, then up to MaxShelf records with a tag of those, a further tag, a
\* tag of digits, or no tag
ChartCollections ==
    LET tagged(t) == [title |-> TitleDune, tag |-> <<t>>]
        starts == { <<>>,
                    <<tagged("a"), tagged("b"), tagged("c"), tagged("d")>>,
                    <<tagged("a"), tagged("b"), tagged("c"), tagged("d"), tagged("e")>> }
        more   == { tagged("a"), tagged("e"), tagged("f"), tagged("2"),
                    [title |-> TitleDune] }
    IN  { start \o rest : start \in starts, rest \in SeqsUpTo(more, MaxShelf) }

\* renderTopTagsChart(books) within updateDashboard, on a collection that is
\* not empty
TopTagsChartCall ==
    /\ call = NoCall
    /\ \E bs \in ChartCollections \ {<<>>} :
          call' = [fn |-> "renderTopTagsChart", arg |-> bs, res |-> renderTopTagsChart(bs)]
    /\ UNCHANGED <<repoVars, uiVars, storageOk, settingsVars, download, now, callerArr>>

NextDashboard ==
    \/ DashboardCall
    \/ TopTagsChartCall
    \/ GetTopCall
    \/ CallReturns

SpecDashboard == InitPure /\ [][NextDashboard]_vars

\* the records a matcher is tested on
MatchRecords == {BookDune, BookEmma, [BookEmma EXCEPT !.author = <<"B", "o">>]}

\* the matchers: compileRegex with its default flag, and with the flags
\* handleSearch passes
Matchers ==
    { compileRegex(pattern, flags) :
        pattern \in {<<"A", "l">>, <<"e">>, <<"m", "m">>, <<"D">>},
        flags \in {"i", "g", "gi"} }

\* matchesSearch(book, regex) twice in succession with one matcher, and once
\* more with the matcher as a test of another record leaves it
MatchesSearchCall ==
    /\ call = NoCall
    /\ \E book \in MatchRecords, other \in MatchRecords, re \in Matchers :
          LET first  == matchesSearch(book, re)
              second == matchesSearch(book, [re EXCEPT !.lastIndex = first.lastIndex])
              before == matchesSearch(other, re)
              after  == matchesSearch(book, [re EXCEPT !.lastIndex = before.lastIndex])
          IN  call' = [fn |-> "matchesSearch", book |-> book, other |-> other, re |-> re,
                       first |-> first.result, second |-> second.result,
                       afterOther |-> after.result]
    /\ UNCHANGED <<repoVars, uiVars, storageOk, settingsVars, download, now, callerArr>>

NextMatch == MatchesSearchCall \/ CallReturns

SpecMatch == InitPure /\ [][NextMatch]_vars

\* localStorage starts or stops taking writes (the quota is reached, space is
\* freed); it starts taking them again after a write has failed
StorageTurns ==
    /\ storageOk \/ saveLog = "failed"
    /\ storageOk' = ~storageOk
    /\ UNCHANGED <<repoVars, uiVars, settingsVars, call, download, now, callerArr>>

\* the page opened on a storage that takes no writes
InitStorage ==
    /\ Init
    /\ ~storageOk
    /\ visited

\* addBook(bookData) with the data of a valid form
AddDuneCall ==
    \E r \in Randoms :
        addBook(BookDune, r) /\ UNCHANGED <<envVars, now, callerArr, uiVars>>

\* updateBook(id, updates) with a new title
RetitleCall ==
    \E id \in GeneratedIds :
        updateBook(id, [title |-> TitleEmma]) /\ UNCHANGED <<envVars, now, callerArr, uiVars>>

\* the calls that write the collection, on a storage that fails and recovers
NextStorage ==
    \/ AddDuneCall
    \/ RetitleCall
    \/ DeleteBookCall
    \/ SetBooksCall
    \/ HandleClearData
    \/ StorageTurns

SpecStorage == InitStorage /\ [][NextStorage]_vars

\* the titles validateTitle is called on
TitleInputs == TextsUpTo({"a", " ", "\n"}, MaxTextLen)

\* the page counts validatePages is called on
PagesInputs ==
    TextsUpTo({"0", "1", "5", "-", ".", "a", " "}, MaxTextLen)
        \cup {<<"2", "5", "0">>, <<"1", "2", ".", "5">>, <<"-", "5">>, <<"a", "b", "c">>}

\* the dates validateDate is called on
DateInputs ==
    { <<>>, <<" ">>,
      <<"2", "0", "2", "5", "-", "0", "2", "-", "3", "0">>,
      <<"2", "0", "2", "5", "-", "0", "4", "-", "3", "1">>,
      <<"2", "0", "2", "3", "-", "0", "2", "-", "2", "9">>,
      <<"2", "0", "2", "4", "-", "0", "2", "-", "2", "9">>,
      <<"2", "0", "2", "5", "-", "0", "2", "-", "2", "8">>,
      <<"2", "0", "2", "5", "/", "0", "2", "/", "2", "8">>,
      <<"2", "0", "2", "5", "-", "1", "3", "-", "2", "5">>,
      <<"2", "0", "2", "5", "-", "0", "9", "-", "3", "2">>,
      <<"2", "0", "2", "5", "-", "0", "0", "-", "1", "0">>,
      <<"2", "0", "2", "5", "-", "0", "9", "-", "0", "0">>,
      <<"2", "5", "-", "0", "9", "-", "2", "0", "2", "5">>,
      <<"2", "0", "2", "5", "-", "1", "2", "-", "3", "1">>,
      <<"2", "0", "2", "5", "-", "2", "-", "2", "8">> }

ValidateTitleCall ==
    /\ call = NoCall
    /\ \E value \in TitleInputs :
          call' = [fn |-> "validateTitle", arg |-> value, res |-> validateTitle(value)]
    /\ UNCHANGED <<repoVars, uiVars, storageOk, settingsVars, download, now, callerArr>>

ValidatePagesCall ==
    /\ call = NoCall
    /\ \E value \in PagesInputs :
          call' = [fn |-> "validatePages", arg |-> value, res |-> validatePages(value)]
    /\ UNCHANGED <<repoVars, uiVars, storageOk, settingsVars, download, now, callerArr>>

\* validateDate(value) on an engine whose new Date is lenient or not
ValidateDateCall ==
    /\ call = NoCall
    /\ \E value \in DateInputs, lenient \in BOOLEAN :
          call' = [fn |-> "validateDate", arg |-> value, lenient |-> lenient,
                   res |-> validateDate(value, lenient)]
    /\ UNCHANGED <<repoVars, uiVars, storageOk, settingsVars, download, now, callerArr>>

NextValidate ==
    \/ ValidateTitleCall
    \/ ValidatePagesCall
    \/ ValidateDateCall
    \/ CallReturns

SpecValidate == InitPure /\ [][NextValidate]_vars

SpecHighlight == InitPure /\ [][NextHighlight]_vars

SpecSort == InitPure /\ [][NextSort]_vars

(***************************************************************************)
(* The claims.                                                             *)
(***************************************************************************)
\* the number of records of bs that carry id
CountId(bs, id) == Cardinality({i \in DOMAIN bs : HasId(bs[i], id)})

\* C1: the id is a key of the collection: every record carries an id and no
\* two records of the collection share one.
C1_IdIsKey ==
    /\ \A i \in DOMAIN books : "id" \in DOMAIN books[i]
    /\ \A i, j \in DOMAIN books : i # j => Get(books[i], "id") # Get(books[j], "id")

\* C2: every record of the persisted collection passes validateBook (on some
\* engine at least).
C2_StoredRecordsAreValid ==
    stored.kind = "json" =>
        \A i \in DOMAIN stored.data :
            \E lenient \in BOOLEAN : validateBook(stored.data[i], lenient).valid

\* C3: an import that collects an error returns valid = false and no data, and
\* handleImport then leaves the collection in memory and the stored one as
\* they were.
C3_ImportAllOrNothing ==
    [][\A text \in ImportTexts :
          LET result == importFromJSON(text)
          IN  (HandleImport(text) /\ Len(result.errors) > 0) =>
                 /\ ~result.valid
                 /\ ~result.hasData
                 /\ books' = books
                 /\ stored' = stored]_vars

\* C3, the case: an import of a file with a bad element was rejected while
\* the collection held records.
C3_Witness ==
    /\ status["settings-status"] = StatusOf("Import failed", "error")
    /\ books # <<>>
    /\ stored.kind = "json"

\* C4: updateBook with an id that no record carries returns null, changes no
\* record of the collection and writes nothing to storage.
C4_UpdateUnknownId ==
    [][\A id \in GeneratedIds, f \in FieldsInputs :
          (updateBook(id, f) /\ FindIndex(books, id) = 0) =>
             /\ ret' = RetNull
             /\ books' = books
             /\ saveLog' = "none"
             /\ stored' = stored]_vars

\* C4, the case: updateBook returned null over a collection that holds a
\* record.
C4_Witness ==
    /\ ret = RetNull
    /\ books # <<>>
    /\ saveLog = "none"

\* C5: updateBook on an existing id keeps the id and createdAt of the record,
\* replaces every supplied field and keeps every other, sets updatedAt to the
\* current time so that updatedAt never decreases, keeps the record in place
\* and leaves the other records unchanged.
C5_UpdateFrame ==
    [][\A id \in GeneratedIds, f \in FieldsInputs :
          (updateBook(id, f) /\ FindIndex(books, id) # 0) =>
             LET i   == FindIndex(books, id)
                 old == books[i]
                 new == books'[i]
                 own == {"id", "createdAt", "updatedAt"}
             IN  /\ Len(books') = Len(books)
                 /\ \A j \in DOMAIN books : j # i => books'[j] = books[j]
                 /\ HasId(new, id)
                 /\ Get(new, "createdAt") = Get(old, "createdAt")
                 /\ \A k \in (DOMAIN f) \ own : k \in DOMAIN new /\ new[k] = f[k]
                 /\ \A k \in (DOMAIN old) \ (own \cup DOMAIN f) :
                       k \in DOMAIN new /\ new[k] = old[k]
                 /\ new["updatedAt"] = now
                 /\ "updatedAt" \in DOMAIN old => new["updatedAt"] >= old["updatedAt"]]_vars

\* C6: the id of the record addBook returns is carried by no record before
\* the call and by exactly one after it; the record is appended last with
\* createdAt = updatedAt = now and the earlier records are unchanged.
C6_AddFreshId ==
    [][\A f \in FieldsInputs, r \in Randoms :
          addBook(f, r) =>
             LET new == ret'.book
             IN  /\ CountId(books, Get(new, "id")) = 0
                 /\ CountId(books', Get(new, "id")) = 1
                 /\ books' = Append(books, new)
                 /\ new["createdAt"] = now
                 /\ new["updatedAt"] = now]_vars

\* C7: deleteBook returns true exactly when a record carried the id; it then
\* removes that one record, keeps the others in their order and writes to
\* storage; when it returns false the collection is unchanged and nothing is
\* written.
C7_DeleteExactlyOne ==
    [][\A id \in GeneratedIds :
          deleteBook(id) =>
             LET i == FindIndex(books, id)
             IN  /\ ret'.val = (i # 0)
                 /\ ret'.val =>
                       /\ books' = SubSeq(books, 1, i - 1) \o SubSeq(books, i + 1, Len(books))
                       /\ saveLog' # "none"
                 /\ ~ret'.val => (books' = books /\ saveLog' = "none" /\ stored' = stored)]_vars

\* C8: a caller that changes the array it got from getBooks(), or a record
\* object it got from getBooks() or getBookById(), leaves the collection and
\* its records as they were.
C8_AccessorsHandOutCopies ==
    [][(CallerMutatesArray \/ CallerMutatesRecord) => books' = books]_vars

\* C9: a search with an expression that does not compile shows an empty list
\* and an error.
C9_InvalidSearchShowsNothing ==
    [][\A searchInput \in SearchInputs, caseSensitive \in BOOLEAN :
          (/\ HandleSearch(searchInput, caseSensitive)
           /\ searchInput # <<>>
           /\ compileRegex(searchInput, "gi") = NoRegex) =>
             /\ displayed' = <<>>
             /\ status'["search-status"].class = "error"]_vars

\* the joined text of book contains a match of the expression
ContainsMatch(book, re) ==
    \E i \in 0..Len(SearchableText(book)) : MatchesAt(re, SearchableText(book), i)

\* C10: filtering with the matcher the search box compiles returns the
\* records whose joined text contains a match, in their order.
C10_FilterReturnsTheMatches ==
    \A searchInput \in SearchInputs, flags \in {"g", "gi"} :
        LET re == compileRegex(searchInput, flags)
        IN  re.kind = "regex" =>
               filterBooks(books, re).books
                  = SelectSeq(books, LAMBDA b : ContainsMatch(b, re))

\* the records of bs carry ids, no two the same, and the required fields with
\* texts that are not empty, the date of the shape YYYY-MM-DD
HasIdsAndRequiredFields(bs) ==
    /\ \A i \in DOMAIN bs : "id" \in DOMAIN bs[i]
    /\ \A i, j \in DOMAIN bs : i # j => bs[i]["id"] # bs[j]["id"]
    /\ \A i \in DOMAIN bs :
          /\ \A j \in DOMAIN RequiredFields : Truthy(bs[i], RequiredFields[j])
          /\ ImportDatePattern(bs[i]["date"])

\* what importFromJSON returns when it accepts the records bs
Accepted(bs) == [valid |-> TRUE, hasData |-> TRUE, data |-> bs, errors |-> <<>>]

\* C11 as claimed: importing the export of records with unique ids and the
\* required fields returns valid = true, no errors and the same records in the
\* same order.
C11_RoundTrip ==
    [][(HandleExport /\ HasIdsAndRequiredFields(books)) =>
          importFromJSON(download') = Accepted(books)]_vars

\* C11, amended: the same for records whose pages text moreover begins with a
\* number, as parseInt reads it.
C11_RoundTripOfNumericPages ==
    [][(/\ HandleExport
        /\ HasIdsAndRequiredFields(books)
        /\ \A i \in DOMAIN books : ~ParseIntIsNaN(books[i]["pages"])) =>
          importFromJSON(download') = Accepted(books)]_vars

\* C11, the case: two records were exported and the import of the file put
\* them back.
C11_Witness ==
    /\ download # NoDownload
    /\ Len(download.elements) = 2
    /\ status["settings-status"] = StatusOf("Data imported successfully!", "success")
    /\ books = [i \in DOMAIN download.elements |-> download.elements[i].o]
    /\ HasIdsAndRequiredFields(books)

\* the bijections between the indices of res and those of arg that show res
\* to hold the records of arg
Rearrangements(arg, res) ==
    IF Len(arg) # Len(res) THEN {}
    ELSE {p \in [DOMAIN res -> DOMAIN arg] :
             /\ \A i, j \in DOMAIN res : i # j => p[i] # p[j]
             /\ \A i \in DOMAIN res : res[i] = arg[p[i]]}

\* res is arg ordered by the comparator of sortBy, the records that compare
\* equal in the order they have in arg
IsStableSort(arg, res, sortBy, lenient) ==
    \E p \in Rearrangements(arg, res) :
        \A i, j \in DOMAIN res :
            i < j => \/ Compare(res[i], res[j], sortBy, lenient) < 0
                     \/ /\ Compare(res[i], res[j], sortBy, lenient) = 0
                        /\ p[i] < p[j]

\* C12: for each of the six criteria sortBooks returns a permutation of its
\* input ordered by the comparator of the criterion, with the records that
\* compare equal in their input order, so that sorting the result again gives
\* the result; for another criterion it returns the input's order.
C12_SortIsStableAndOrdered ==
    call.fn = "sortBooks" =>
        IF call.sortBy \in SortOptions
        THEN /\ IsStableSort(call.arg, call.res, call.sortBy, call.lenient)
             /\ sortBooks(call.res, call.sortBy, call.lenient) = call.res
        ELSE call.res = call.arg

\* html without the <mark> and </mark> markers in it
RECURSIVE Unmarked(_)
Unmarked(html) ==
    IF html = <<>> THEN <<>>
    ELSE IF Len(html) >= Len(MarkOpen) /\ SubSeq(html, 1, Len(MarkOpen)) = MarkOpen
    THEN Unmarked(SubSeq(html, Len(MarkOpen) + 1, Len(html)))
    ELSE IF Len(html) >= Len(MarkClose) /\ SubSeq(html, 1, Len(MarkClose)) = MarkClose
    THEN Unmarked(SubSeq(html, Len(MarkClose) + 1, Len(html)))
    ELSE <<Head(html)>> \o Unmarked(Tail(html))

\* C13: without a matcher highlightMatches returns the escaped text, and the
\* cell the row renderer makes of a text is its escaped form, marked or not.
C13_NoMatcherEscapes ==
    call.fn = "highlightMatches" =>
        /\ call.re = NoRegex => call.res = escapeHtml(call.text)
        /\ Unmarked(call.cell) = escapeHtml(call.text)

\* the non-overlapping matches of the matcher in text, from the left, each
\* wrapped in a marker
EveryMatchWrapped(text, re) == ReplaceFrom(text, re, 0, TRUE)

\* C14: with a matcher, highlightMatches escapes the text and wraps every
\* non-overlapping match in a marker; the output without the markers is the
\* escaped text.
C14_EveryMatchIsMarked ==
    (call.fn = "highlightMatches" /\ call.re.kind = "regex") =>
        /\ call.res = EveryMatchWrapped(escapeHtml(call.text), call.re)
        /\ Unmarked(call.res) = escapeHtml(call.text)

\* the reason of the taxonomy that a validator's result stands for
ReasonOf(res) ==
    IF res.valid THEN "Valid"
    ELSE IF res.message \in {"LeadingTrailing", "DoubleSpace"} THEN "Formatting"
    ELSE IF res.message = "InvalidDate" THEN "InvalidCalendarDate"
    ELSE res.message

\* the year, the month and the day of a text that DatePattern accepts name a
\* day of the calendar
IsCalendarDate(v) ==
    DigitsToNat(SubSeq(v, 9, 10)) <=
        DaysInMonth(DigitsToNat(SubSeq(v, 1, 4)), DigitsToNat(SubSeq(v, 6, 7)))

\* C15: validateDate returns Required for the empty text, else Formatting for
\* a text that is not dddd-dd-dd with the month in 01-12 and the day in
\* 01-31, else InvalidCalendarDate for a day the month does not have, else
\* valid.
C15_ValidateDate ==
    call.fn = "validateDate" =>
        ReasonOf(call.res) =
            IF call.arg = <<>> THEN "Required"
            ELSE IF ~DatePattern(call.arg) THEN "Formatting"
            ELSE IF ~IsCalendarDate(call.arg) THEN "InvalidCalendarDate"
            ELSE "Valid"

\* C16: validatePages returns Required for the empty text, else Formatting
\* for a text that is not digits without a leading zero (the text 0 is no
\* Formatting failure), else NotPositive for a number <= 0, else valid.
C16_ValidatePages ==
    call.fn = "validatePages" =>
        ReasonOf(call.res) =
            IF call.arg = <<>> THEN "Required"
            ELSE IF ~PagesPattern(call.arg) /\ call.arg # <<"0">> THEN "Formatting"
            ELSE IF DigitsToNat(call.arg) <= 0 THEN "NotPositive"
            ELSE "Valid"

\* v contains two whitespace characters in a row
HasRunOfSpaces(v) == \E i \in 1..(Len(v) - 1) : IsSpace(v[i]) /\ IsSpace(v[i + 1])

C18_UpdateSettingsReplaces ==
    call.fn = "updateSettings" => call.res = call.arg

\* a step in which a handler's write of the collection failed
WriteFails == saveLog' = "failed" /\ (saveLog # "failed" \/ books' # books)

\* C19: a handler whose write of the collection fails reports the failure in
\* a status message and shows no success message.
C19_FailedWriteIsReported ==
    [][WriteFails =>
          /\ \E el \in StatusElements : status'[el].class = "error"
          /\ \A el \in StatusElements :
                status'[el] # status[el] => status'[el].class # "success"]_vars

\* a step in which the form, in edit mode for an id that is no longer in the
\* collection, is submitted and a status message is shown for it
StaleEditSubmitted ==
    /\ formId # <<>>
    /\ CountId(books, formId) = 0
    /\ status'["form-status"] # status["form-status"]
    /\ status'["form-status"] # NoStatus

\* C20: a submit in edit mode for an id that is no longer in the collection
\* leaves the collection unchanged and shows no 'updated successfully' status.
C20_StaleEditIsNotASuccess ==
    [][StaleEditSubmitted =>
          /\ books' = books
          /\ status'["form-status"].text # "Book updated successfully!"]_vars

\* C21: every record of the collection has createdAt <= updatedAt.
C21_CreatedBeforeUpdated ==
    \A i \in DOMAIN books :
        /\ "createdAt" \in DOMAIN books[i]
        /\ "updatedAt" \in DOMAIN books[i]
        /\ books[i]["createdAt"] <= books[i]["updatedAt"]

\* C22: the sample data replace an empty collection only, and a failed fetch
\* leaves the collection as it is and is reported.
C22_SampleOnlyIntoEmpty ==
    [][/\ FetchDone("array") => books = <<>>
       /\ FetchDone("failed") => (books' = books /\ alert' # "none")]_vars

\* the errors of a result, as a set
ErrorsOf(res) == {res.errors[j] : j \in DOMAIN res.errors}

\* C23: for a text that parses to an array, importFromJSON reports every
\* required field that an element lacks or holds empty, whatever the elements
\* are, and does not report the text as malformed.
C23_ImportScansEveryElement ==
    (call.fn = "importFromJSON" /\ call.arg.kind = "array") =>
        /\ \A j \in DOMAIN call.res.errors : call.res.errors[j].type # "MalformedInput"
        /\ \A i \in DOMAIN call.arg.elements :
              \A k \in DOMAIN RequiredFields :
                  ~Truthy(Element(call.arg.elements[i]), RequiredFields[k]) =>
                      ImportError("MissingField", i - 1, RequiredFields[k])
                          \in ErrorsOf(call.res)

\* what a record adds to the total: its parsed page count, zero when the
\* pages are missing or no number
PageCount(book) ==
    IF Truthy(book, "pages") /\ ~ParseIntIsNaN(book["pages"])
    THEN ParseInt(book["pages"]).v ELSE 0

RECURSIVE SumOfPageCounts(_)
SumOfPageCounts(bs) ==
    IF bs = <<>> THEN 0 ELSE PageCount(Head(bs)) + SumOfPageCounts(Tail(bs))

\* C24: the total pages of the dashboard is the sum of the parsed page
\* counts, a record without a numeric page count adding zero; the average
\* length is the total over the number of records, rounded to the nearest
\* integer with a tie going up, and zero for no records.
C24_TotalAndAverage ==
    call.fn = "updateDashboard" =>
        /\ call.totalPages = Num(SumOfPageCounts(call.arg))
        /\ call.avgLength =
              IF call.arg = <<>> THEN Num(0)
              ELSE Num((2 * SumOfPageCounts(call.arg) + Len(call.arg))
                           \div (2 * Len(call.arg)))

\* top is the most frequent value of the field in bs, and of the values that
\* are as frequent the one that occurs first
IsFirstMostFrequent(bs, field, top) ==
    LET ks       == [i \in DOMAIN bs |-> KeyOf(bs[i], field)]
        count(k) == Cardinality({i \in DOMAIN ks : ks[i] = k})
        first(k) == CHOOSE i \in DOMAIN ks : ks[i] = k /\ \A j \in 1..(i - 1) : ks[j] # k
    IN  /\ \E i \in DOMAIN ks : ks[i] = top
        /\ \A i \in DOMAIN ks : count(ks[i]) <= count(top)
        /\ \A i \in DOMAIN ks : count(ks[i]) = count(top) => first(top) <= first(ks[i])

\* C25: getTopTag and getTopAuthor return a most frequent value, of several
\* the one that occurs first in the collection, and the empty text for an
\* empty collection.
C25_TopIsFirstMostFrequent ==
    call.fn = "getTop" =>
        IF call.arg = <<>> THEN call.topTag = <<>> /\ call.topAuthor = <<>>
        ELSE /\ IsFirstMostFrequent(call.arg, "tag", call.topTag)
             /\ IsFirstMostFrequent(call.arg, "author", call.topAuthor)

\* the tag of a record in the chart
ChartTag(book) == IF Truthy(book, "tag") THEN book["tag"] ELSE Uncategorized

\* the number of records of bs with the tag t
TagCount(bs, t) == Cardinality({i \in DOMAIN bs : ChartTag(bs[i]) = t})

\* the place in bs where the tag t occurs first
FirstPlace(bs, t) == CHOOSE i \in DOMAIN bs : ChartTag(bs[i]) = t /\
                                              \A j \in 1..(i - 1) : ChartTag(bs[j]) # t

\* the tags of bs that come before the tag t in the chart: those with a higher
\* count, and those with the same count that occur earlier
TagsBefore(bs, t) ==
    {ChartTag(bs[i]) : i \in {j \in DOMAIN bs :
        \/ TagCount(bs, ChartTag(bs[j])) > TagCount(bs, t)
        \/ /\ TagCount(bs, ChartTag(bs[j])) = TagCount(bs, t)
           /\ FirstPlace(bs, ChartTag(bs[j])) < FirstPlace(bs, t)}}

\* C26: the chart of the tags has at most six buckets: the five tags with the
\* highest counts, ties in the order the tags were met, and one bucket Other
\* with the sum of the others when there are more than five tags; the counts
\* sum to the number of records, every slice starts where the one before it
\* ends, and the spans sum to 360 degrees.
C26_TagDistribution ==
    call.fn = "renderTopTagsChart" =>
        LET bs     == call.arg
            slices == call.res
            tags   == {ChartTag(bs[i]) : i \in DOMAIN bs}
            kept   == IF Cardinality(tags) > 5 THEN 5 ELSE Cardinality(tags)
        IN  /\ Len(slices) <= 6
            /\ Len(slices) = IF Cardinality(tags) > 5 THEN 6 ELSE Cardinality(tags)
            /\ \A j \in 1..kept :
                  /\ slices[j].tag \in tags
                  /\ Cardinality(TagsBefore(bs, slices[j].tag)) = j - 1
                  /\ slices[j].count = TagCount(bs, slices[j].tag)
            /\ Cardinality(tags) > 5 =>
                  /\ slices[6].tag = Other
                  /\ slices[6].count = Len(bs) - SumOfCounts([j \in 1..5 |->
                                            <<slices[j].tag, slices[j].count>>])
            /\ SumOfCounts([j \in DOMAIN slices |-> <<slices[j].tag, slices[j].count>>])
                  = Len(bs)
            /\ slices[1].from = 0
            /\ \A j \in 2..Len(slices) : slices[j].from = slices[j - 1].to
            /\ slices[Len(slices)].to = 360 * slices[Len(slices)].over

\* C27: matchesSearch with one record and one matcher returns the same
\* result twice in succession, and the same whatever record the matcher was
\* tested on before.
C27_MatcherIsReusable ==
    call.fn = "matchesSearch" =>
        /\ call.second = call.first
        /\ call.afterOther = call.first

\* C28: when the write of the latest add, update, delete, import or clear-all
\* succeeded, the stored collection is the collection in memory and loadBooks
\* returns it, whatever writes failed before.
C28_SuccessfulWriteSyncs ==
    saveLog = "ok" => (stored = Json(books) /\ loadBooks(stored) = books)

\* C28, the case: a write succeeded on a collection that is not empty; the
\* storage took no writes at first and recovers only after a failed write.
C28_Witness ==
    /\ saveLog = "ok"
    /\ books # <<>>
    /\ loadBooks(stored) = books

\* C29: a timer that clears the message of an element is the timer of that
\* message: the latest one started for the element, so no other timer of the
\* element is pending when it fires.
C29_OwnTimerClears ==
    [][\A el \in StatusElements :
          (StatusTimeout(el) /\ status[el] # NoStatus) => timers[el] = 1]_vars


\* C30: once init() and the callback it scheduled have run and no save is
\* pending, the target the progress bar was drawn with is the targetPages of
\* the stored settings.
C30_ProgressUsesSavedTarget ==
    (~initPending /\ ~settingsSave) =>
        barTarget = loadSettings(storedSettings)["targetPages"]

=============================================================================
